---- MODULE Spec2Model ----
(***************************************************************************)
(* A model of the agentic tool-use loop (RespAct.forward) of ts-dspy and   *)
(* of the prompt / reply parsing it depends on.                            *)
(*                                                                         *)
(* Text.  A string is a sequence of lexical atoms.  An atom is a word (a   *)
(* maximal run of \w characters), one white-space character (SP or NL) or  *)
(* one punctuation character ("->" is one atom).  A few pieces of fixed    *)
(* prose that no regular expression of the program looks into are kept as  *)
(* one atom each.  The regular expressions of the source are translated to *)
(* scans over atoms, backtracking included.                                *)
(*                                                                         *)
(* Values that a scan hands on are passed as operator parameters, which    *)
(* is why many functions of the source are split into a chain of           *)
(* definitions here.                                                       *)
(***************************************************************************)
EXTENDS Integers, Sequences, FiniteSets, TLC

VARIABLES
    signature,          \* Module.signature   (constructor argument)
    maxSteps,           \* RespAct.maxSteps   (constructor option)
    other,              \* the locals of a second forward() call on the same instance
    pc,                 \* where forward() stands: "init", "awaitLM", "awaitTool", "done", "failed"
    step,               \* the loop counter of forward()
    conversation,       \* the transcript
    previousToolCalls,  \* the dedup keys issued so far, in order
    response,           \* the model reply of the current iteration
    toolCall,           \* the tool call extracted from it, or NoMatch
    result,             \* the data of the Prediction returned, or Nothing
    error,              \* the error forward() threw, or Nothing
    lmCalls,            \* the prompts passed to lm.generate, in order
    replyLog,           \* the replies lm.generate gave, in order
    toolLog,            \* the tool calls whose tool function was invoked, in order
    lastEvent,          \* what the last handler did
    rawText,            \* the text given to a direct call of parseOutput
    parseOutcome,       \* what that call returned or threw, or Nothing
    parseCalls,         \* the parseOutput calls made so far: TRUE for a call on rawText
    moduleKind,         \* the class of the module: "RespAct", "Predict", "ChainOfThought"
    inputMap,           \* the inputs given to forward() or to buildPrompt
    builtPrompt,        \* what a direct call of buildPrompt returned or threw, or Nothing
    parsedSig,          \* what a direct call of parseStringSignature returned or threw
    openAILM,           \* an OpenAILM instance: its usage counters and its calls in flight
    dspyConfig,         \* the DSPyConfig singleton and the modules constructed so far
    geminiChat          \* a GeminiLM.chat call and the message list of its caller

vars == <<signature, maxSteps, other, pc, step, conversation, previousToolCalls, response,
          toolCall, result, error, lmCalls, replyLog, toolLog, lastEvent, rawText, parseOutcome,
          parseCalls, moduleKind, inputMap, builtPrompt, parsedSig,
          openAILM, dspyConfig, geminiChat>>

\* the variables of the language-model packages and of the configuration
lmVars == <<openAILM, dspyConfig, geminiChat>>

\* the variables of the direct calls of the parsing utilities and of the module's setup
utilVars == <<parseCalls, moduleKind, inputMap, builtPrompt, parsedSig, lmVars>>

-----------------------------------------------------------------------------
(* Atoms and elementary string functions *)

SP == " "
NL == "\n"
QUOTE == "'"
DQUOTE == "\""

Nothing == [t |-> "nothing"]
NoMatch == [t |-> "nomatch"]

MinOf(S) == CHOOSE x \in S : \A y \in S : x <= y
MaxOf(S) == CHOOSE x \in S : \A y \in S : x >= y
\* the least element of S, or dflt when S is empty
FirstIn(S, dflt) == IF S = {} THEN dflt ELSE MinOf(S)

\* \s of the regular expressions, and what String.prototype.trim removes
IsWs(a) == a \in {SP, NL}

\* s[i..j] (empty when j < i)
Sub(s, i, j) == IF j < i THEN <<>> ELSE SubSeq(s, i, j)

\* the position of the first atom at or after p that is not in skip, Len(s)+1 if none
SkipSet(s, p, skip) == FirstIn({j \in p..Len(s) : s[j] \notin skip}, Len(s) + 1)

\* the position of the first atom at or after i that is not white space, Len(s)+1 if none
SkipWs(s, i) == SkipSet(s, i, {SP, NL})

\* the position of the first NL at or after i, Len(s)+1 if none
LineEnd(s, i) == FirstIn({j \in i..Len(s) : s[j] = NL}, Len(s) + 1)

\* from position j to the end of its line
LineFrom(s, j) == Sub(s, j, LineEnd(s, j) - 1)

\* s without what precedes and follows the positions P
Between(s, P) == IF P = {} THEN <<>> ELSE Sub(s, MinOf(P), MaxOf(P))

\* String.prototype.trim
Trim(s) == Between(s, {j \in 1..Len(s) : ~IsWs(s[j])})

\* pat occurs in s at position i
OccursAt(s, pat, i) ==
    /\ i >= 1
    /\ i + Len(pat) - 1 <= Len(s)
    /\ \A k \in 1..Len(pat) : s[i + k - 1] = pat[k]

\* String.prototype.includes
Includes(s, pat) == \E i \in 1..Len(s) : OccursAt(s, pat, i)

\* String.prototype.endsWith
EndsWith(s, pat) == OccursAt(s, pat, Len(s) - Len(pat) + 1)

\* the words of the model's alphabet that hold an upper-case letter, lower-cased
LowerWord(a) ==
    CASE a = "Final"  -> "final"
      [] a = "FINAL"  -> "final"
      [] a = "Answer" -> "answer"
      [] a = "ANSWER" -> "answer"
      [] a = "Action" -> "action"
      [] a = "Input"  -> "input"
      [] a = "Paris"  -> "paris"
      [] a = "AAPL"   -> "aapl"
      [] a = "Error"  -> "error"
      [] a = "Symbol" -> "symbol"
      [] a = "Price"  -> "price"
      [] OTHER        -> a

\* String.prototype.toLowerCase
ToLowerCase(s) == [i \in 1..Len(s) |-> LowerWord(s[i])]

-----------------------------------------------------------------------------
(* JavaScript values: strings, numbers, null, booleans, arrays, errors *)

Str(s) == [t |-> "string", s |-> s]
Num(n) == [t |-> "number", n |-> n]
Bool(b) == [t |-> "boolean", b |-> b]
Arr(items) == [t |-> "array", items |-> items]
Null == [t |-> "null"]
Undefined == [t |-> "undefined"]
\* an Error object; `${error}` renders it as "<name>: <message>"
Err(name, message) == [t |-> "error", name |-> name, message |-> message]
\* the outcome of a call that threw e
Thrown(e) == [t |-> "throw", e |-> e]

\* the numbers of the model and the numerals that denote them
Numbers == 0..9 \cup {42, 150}
Digits == <<"0", "1", "2", "3", "4", "5", "6", "7", "8", "9">>
NumeralOf(n) == CASE n \in 0..9 -> Digits[n + 1] [] n = 42 -> "42" [] n = 150 -> "150" [] n = -1 -> "-1"
Numerals == {NumeralOf(n) : n \in Numbers}
NumeralValue(a) == CHOOSE n \in Numbers : NumeralOf(n) = a

\* s is a numeral, or a numeral followed by ".0"
IsNumberText(s) ==
    \/ Len(s) = 1 /\ s[1] \in Numerals
    \/ Len(s) = 3 /\ s[1] \in Numerals /\ s[2] = "." /\ s[3] = "0"

\* Number(s) of a trimmed string: the empty string is 0, "42.0" is 42, a numeral is
\* its value, anything else NaN (NoMatch)
NumberOf(s) ==
    CASE s = <<>> -> Num(0)
      [] IsNumberText(s) -> Num(NumeralValue(s[1]))
      [] OTHER -> NoMatch

\* JSON.parse(s): the value, or NoMatch when it throws
JSONParse(s) ==
    CASE s = <<"null">> -> Null
      [] s = <<"true">> -> Bool(TRUE)
      [] s = <<"false">> -> Bool(FALSE)
      [] IsNumberText(s) -> Num(NumeralValue(s[1]))
      [] Len(s) >= 2 /\ s[1] = DQUOTE /\ s[Len(s)] = DQUOTE
            /\ \A i \in 2..(Len(s) - 1) : s[i] \notin {DQUOTE, NL, "\\"}
           -> Str(Sub(s, 2, Len(s) - 1))
      [] OTHER -> NoMatch

\* JSON.stringify(v)
JSONStringify(v) ==
    CASE v.t = "string" -> <<DQUOTE>> \o v.s \o <<DQUOTE>>
      [] v.t = "number" -> <<NumeralOf(v.n)>>
      [] v.t = "boolean" -> IF v.b THEN <<"true">> ELSE <<"false">>
      [] v.t = "null" -> <<"null">>

\* String(v) and `${v}`
StringOf(v) ==
    CASE v.t = "string" -> v.s
      [] v.t = "number" -> <<NumeralOf(v.n)>>
      [] v.t = "boolean" -> IF v.b THEN <<"true">> ELSE <<"false">>
      [] v.t = "null" -> <<"null">>
      [] v.t = "undefined" -> <<"undefined">>
      [] v.t = "error" -> <<v.name, ":", SP>> \o v.message
      [] v.t = "function" -> <<"function", SP>> \o v.name \o <<"() { [native code] }">>

-----------------------------------------------------------------------------
(* The label scans of RespAct *)

\* a successful match and its group 1
Match(s) == [t |-> "match", s |-> s]

\* when nothing but white space follows the label, the greedy \s* gives back and the
\* capture starts at the last blank that is not a NL (B: the positions of the blanks)
BlankCapture(s, B) == IF B = {} THEN NoMatch ELSE Match(LineFrom(s, MaxOf(B)))

\* the capture (.+?)(?=\n|$) with the first atom that is not white space at j
CaptureFrom(s, p, j) ==
    IF j <= Len(s) THEN Match(LineFrom(s, j))
    ELSE BlankCapture(s, {k \in p..Len(s) : s[k] = SP})

\* /<label>\s*(.+?)(?=\n|$)/m tried with the label ending right before position p:
\* the match, or NoMatch
CaptureAt(s, p) == CaptureFrom(s, p, SkipWs(s, p))

\* the match at the leftmost of the positions I where the expression matches
LeftmostCapture(s, label, I) ==
    IF I = {} THEN NoMatch ELSE CaptureAt(s, MinOf(I) + Len(label))

\* String.prototype.match with /<label>\s*(.+?)(?=\n|$)/m: the leftmost match, or
\* NoMatch
MatchLabel(s, label) ==
    LeftmostCapture(s, label, {i \in 1..Len(s) : /\ OccursAt(s, label, i)
                                                 /\ CaptureAt(s, i + Len(label)) # NoMatch})

ActionLabel == <<"Action", ":">>
ActionInputLabel == <<"Action", SP, "Input", ":">>
FinalAnswerLabel == <<"Final", SP, "Answer", ":">>

\* lines 200-207 of extractToolCall
ToolCallOf(actionMatch, inputMatch) ==
    IF actionMatch # NoMatch /\ inputMatch # NoMatch
    THEN [tool |-> Trim(actionMatch.s), input |-> Trim(inputMatch.s)]
    ELSE NoMatch

\* RespAct.extractToolCall
ExtractToolCall(resp) ==
    ToolCallOf(MatchLabel(resp, ActionLabel), MatchLabel(resp, ActionInputLabel))

\* lines 229-237 of extractFinalAnswer: a number, else JSON, else the text
AnswerValue(answer, num, json) ==
    IF num # NoMatch THEN num
    ELSE IF json # NoMatch THEN json
    ELSE Str(answer)

\* lines 225-240 of extractFinalAnswer
AnswerOf(match) ==
    IF match = NoMatch THEN Null
    ELSE AnswerValue(Trim(match.s), NumberOf(Trim(match.s)), JSONParse(Trim(match.s)))

\* RespAct.extractFinalAnswer
ExtractFinalAnswer(resp) == AnswerOf(MatchLabel(resp, FinalAnswerLabel))

-----------------------------------------------------------------------------
(* Signatures: core/signature.ts *)

\* String.prototype.split on a one-atom separator: the parts, in order
RECURSIVE Split(_, _)
SplitAt(s, sep, P) ==
    IF P = {} THEN <<s>>
    ELSE <<Sub(s, 1, MinOf(P) - 1)>> \o Split(Sub(s, MinOf(P) + 1, Len(s)), sep)
Split(s, sep) == SplitAt(s, sep, {i \in 1..Len(s) : s[i] = sep})

\* the type as it is written, with no default
TypeAsWritten(type) == type

\* type || 'string'
TypeOrString(type) == IF type = <<>> THEN <<"string">> ELSE type

\* one field of parseFields: const [name, type] = trimmed.split(':').map(trim)
ParseField(pieces) ==
    [name |-> Trim(pieces[1]),
     type |-> TypeOrString(IF Len(pieces) >= 2 THEN Trim(pieces[2]) ELSE <<>>)]

\* parseFields of Signature.parseStringSignature: one {name, type} per comma part
FieldsOf(fields) == [i \in 1..Len(fields) |-> ParseField(Split(Trim(fields[i]), ":"))]
ParseFields(part) == FieldsOf(Split(part, ","))

\* of the fields named k the last one: a later entry of an object overwrites
LastField(fields, k) == fields[MaxOf({i \in 1..Len(fields) : fields[i].name = k})]

\* fields.map(f => f.name)
NamesOf(fields) == [i \in 1..Len(fields) |-> fields[i].name]

\* the types object: the entries of the input fields, then those of the output fields
TypesOf(inputFields, outputFields) ==
    [k \in {inputFields[i].name : i \in 1..Len(inputFields)}
            \cup {outputFields[i].name : i \in 1..Len(outputFields)} |->
        IF \E i \in 1..Len(outputFields) : outputFields[i].name = k
        THEN LastField(outputFields, k).type
        ELSE LastField(inputFields, k).type]

\* the object parseStringSignature returns
SignatureOf(inputFields, outputFields) ==
    [t |-> "parsed",
     inputs |-> NamesOf(inputFields),
     outputs |-> NamesOf(outputFields),
     types |-> TypesOf(inputFields, outputFields)]

\* parseStringSignature that takes a string with no '->' as a list of outputs
ParsedSignatureLenient(parts) ==
    IF Len(parts) < 2 THEN SignatureOf(<<>>, ParseFields(Trim(parts[1])))
    ELSE SignatureOf(ParseFields(Trim(parts[1])), ParseFields(Trim(parts[2])))

\* the destructuring [inputPart, outputPart] drops what follows a second '->'; with
\* no '->' the output part is undefined and parseFields throws a TypeError
ParsedSignature(parts) ==
    IF Len(parts) < 2
    THEN Thrown(Err("TypeError", <<"Cannot read properties of undefined">>))
    ELSE SignatureOf(ParseFields(Trim(parts[1])), ParseFields(Trim(parts[2])))

\* Signature.parseStringSignature
ParseStringSignature(sig) == ParsedSignature(Split(sig, "->"))

\* a Signature subclass: its decorated fields in declaration order
ClassSignature(inputs, outputs) == [kind |-> "class", inputs |-> inputs, outputs |-> outputs]
\* a signature given as a string
StringSignature(s) == [kind |-> "string", s |-> s]
\* the signature of a module that was constructed with none: undefined
NoSignature == [kind |-> "undefined"]
Field(name, type) == [name |-> <<name>>, type |-> <<type>>]

\* Signature.getOutputFields, as the list of its entries
GetOutputFields(sig) == sig.outputs

-----------------------------------------------------------------------------
(* The output parser: utils/parsing.ts *)

\* the punctuation atoms; every other atom that is not white space is a word (\w+)
Punct == {":", "=", ",", ";", ".", "*", "-", "->", "+", "(", ")", "!", "?", QUOTE, DQUOTE}
IsWordAtom(a) == ~IsWs(a) /\ a \notin Punct
\* a word that starts with a letter: [A-Z] under the i flag
IsLetterWord(a) == IsWordAtom(a) /\ a \notin Numerals

\* the field name occurs at position i, letter case ignored (the i flag)
FieldAt(s, f, i) == OccursAt(ToLowerCase(s), ToLowerCase(f), i)

\* value.replace(/^\*+|\*+$/g, '')
StripStars(v) == Between(v, {j \in 1..Len(v) : v[j] # "*"})

\* value.replace(/^["']|["']$/g, '')
StripLastQuote(w) ==
    IF Len(w) > 0 /\ w[Len(w)] \in {QUOTE, DQUOTE} THEN Sub(w, 1, Len(w) - 1) ELSE w
StripQuotes(v) ==
    StripLastQuote(IF Len(v) > 0 /\ v[1] \in {QUOTE, DQUOTE} THEN Tail(v) ELSE v)

\* r holds a ':'
ColonAt(s, r) == r <= Len(s) /\ s[r] = ":"
\* q holds a word that a ':' follows, white space apart
LabelWordAt(s, q) == q <= Len(s) /\ IsWordAtom(s[q]) /\ ColonAt(s, SkipWs(s, q + 1))
\* (?=\n\s*\w+\s*:) holds at position n
LabelLineAt(s, n) == n <= Len(s) /\ s[n] = NL /\ LabelWordAt(s, SkipWs(s, n + 1))

\* q holds a word that starts with a letter
LetterAt(s, q) == q <= Len(s) /\ IsLetterWord(s[q])
\* (?=\n\s*[A-Z]) under the i flag holds at position n
CapitalLineAt(s, n) == n <= Len(s) /\ s[n] = NL /\ LetterAt(s, SkipWs(s, n + 1))

\* (.+?)(?=\n\s*\w+\s*:|$) under the s flag, with the first atom after the white
\* space at j: when only white space follows, \s* gives back its last character
Capture1(s, j) ==
    IF j > Len(s) THEN Match(<<s[Len(s)]>>)
    ELSE Match(Sub(s, j, MinOf({e \in j..Len(s) : e = Len(s) \/ LabelLineAt(s, e + 1)})))

\* (.+?)(?=\n|$) under the s flag
Capture2(s, j) ==
    IF j > Len(s) THEN Match(<<s[Len(s)]>>) ELSE Match(LineFrom(s, j))

\* pattern 1, /<f>\s*:\s*(.+?)(?=\n\s*\w+\s*:|$)/is, with the first atom after <f>
\* and its white space at c
Pattern1From(s, c) ==
    IF c + 1 > Len(s) THEN NoMatch
    ELSE IF s[c] # ":" THEN NoMatch
    ELSE Capture1(s, SkipWs(s, c + 1))
Pattern1At(s, p) == Pattern1From(s, SkipWs(s, p))

\* pattern 2, /<f>\s*[=:]\s*(.+?)(?=\n|$)/is
Pattern2From(s, c) ==
    IF c + 1 > Len(s) THEN NoMatch
    ELSE IF s[c] \notin {"=", ":"} THEN NoMatch
    ELSE Capture2(s, SkipWs(s, c + 1))
Pattern2At(s, p) == Pattern2From(s, SkipWs(s, p))

\* when only skipped characters follow, the greedy skip gives back the last
\* character that is not a NL (K: the positions of such characters)
GiveBack(s, K) == IF K = {} THEN NoMatch ELSE Match(<<s[MaxOf(K)]>>)

\* [<skip>]*([^\n]+) to the end of the line, with the first atom not skipped at j
LineCapture(s, p, j) ==
    IF j <= Len(s) THEN Match(LineFrom(s, j))
    ELSE GiveBack(s, {k \in p..Len(s) : s[k] # NL})
SkipThenLine(s, p, skip) == LineCapture(s, p, SkipSet(s, p, skip))

\* pattern 3, /\b<f>\b[:\s=]*([^\n]+)/i, with <f> at i..p-1
Pattern3At(s, i, p) ==
    IF /\ (i = 1 \/ ~IsWordAtom(s[i - 1]))
       /\ (p > Len(s) \/ ~IsWordAtom(s[p]))
    THEN SkipThenLine(s, p, {":", SP, NL, "="})
    ELSE NoMatch

\* pattern 4, /<f>[:\s]*([^\n]+?)(?=\n|$)/i
Pattern4At(s, p) == SkipThenLine(s, p, {":", SP, NL})

\* ([\s\S]*?)(?=\n\s*[A-Z]|$) from the first word at j (Len(s)+1 if none): the
\* capture may be empty
Capture5(s, j) ==
    Match(Sub(s, j, MinOf({e \in (j - 1)..Len(s) :
                              e = Len(s) \/ (e >= j /\ CapitalLineAt(s, e + 1))})))

\* pattern 5, /<f>[^\w]*([\s\S]*?)(?=\n\s*[A-Z]|$)/i: it matches wherever <f> occurs
Pattern5At(s, p) ==
    Capture5(s, FirstIn({j \in p..Len(s) : IsWordAtom(s[j])}, Len(s) + 1))

\* the patterns array of extractFieldValue
NumPatterns == 5

\* patterns[n] tried with the field name f at position i
PatternAt(n, s, f, i) ==
    CASE n = 1 -> Pattern1At(s, i + Len(f))
      [] n = 2 -> Pattern2At(s, i + Len(f))
      [] n = 3 -> Pattern3At(s, i, i + Len(f))
      [] n = 4 -> Pattern4At(s, i + Len(f))
      [] n = 5 -> Pattern5At(s, i + Len(f))

LeftmostPattern(n, s, f, I) == IF I = {} THEN NoMatch ELSE PatternAt(n, s, f, MinOf(I))

\* text.match(patterns[n]) for the field name f: the leftmost match, or NoMatch
PatternMatch(n, s, f) ==
    LeftmostPattern(n, s, f,
        {i \in 1..Len(s) : FieldAt(s, f, i) /\ PatternAt(n, s, f, i) # NoMatch})

\* split(/[,;\n]/).map(s => s.trim()).filter(s => s)
RECURSIVE SplitList(_)
ListItem(part) == IF Trim(part) = <<>> THEN <<>> ELSE <<Str(Trim(part))>>
SplitListAt(v, P) ==
    IF P = {} THEN ListItem(v)
    ELSE ListItem(Sub(v, 1, MinOf(P) - 1)) \o SplitList(Sub(v, MinOf(P) + 1, Len(v)))
SplitList(v) == SplitListAt(v, {i \in 1..Len(v) : v[i] \in {",", ";", NL}})

\* parseFloat / parseInt of a trimmed string: the leading numeral, or NoMatch (NaN)
ParseNumber(v) ==
    IF Len(v) > 0 /\ v[1] \in Numerals THEN Num(NumeralValue(v[1])) ELSE NoMatch

\* a converted value, or the fallback when the conversion failed
OrElse(converted, fallback) == IF converted = NoMatch THEN fallback ELSE converted

\* convertValue without the fallback of the numeric cases: what does not parse is null
ConvertByTypeNoFallback(value, lower) ==
    CASE lower \in {<<"number">>, <<"float">>, <<"int">>, <<"integer">>}
            -> OrElse(ParseNumber(value), Null)
      [] lower \in {<<"boolean">>, <<"bool">>}
            -> Bool(ToLowerCase(value) = <<"true">> \/ value = <<"1">>)
      [] lower \in {<<"array">>, <<"list">>}
            -> OrElse(JSONParse(value), Arr(SplitList(value)))
      [] lower \in {<<"object">>, <<"json">>}
            -> OrElse(JSONParse(value), Str(value))
      [] OTHER -> Str(value)

\* the switch of convertValue on type.toLowerCase()
ConvertByType(value, lower) ==
    CASE lower \in {<<"number">>, <<"float">>, <<"int">>, <<"integer">>}
            -> OrElse(ParseNumber(value), Str(value))
      [] lower \in {<<"boolean">>, <<"bool">>}
            -> Bool(ToLowerCase(value) = <<"true">> \/ value = <<"1">>)
      [] lower \in {<<"array">>, <<"list">>}
            -> OrElse(JSONParse(value), Arr(SplitList(value)))
      [] lower \in {<<"object">>, <<"json">>}
            -> OrElse(JSONParse(value), Str(value))
      [] OTHER -> Str(value)

\* convertValue (no atom of the model opens a JSON object or array, so the JSON
\* auto-detection of untyped values never applies)
ConvertValue(value, type) ==
    IF type = <<>> \/ type = <<"string">> THEN Str(value)
    ELSE ConvertByType(value, ToLowerCase(type))

\* the clean-up of a pattern's capture: trim, strip asterisks and quotes, trim
CleanCapture(m) == Trim(StripQuotes(StripStars(Trim(m))))

\* the loop over the patterns of extractFieldValue, from patterns[n] on: the first
\* pattern that matches with a capture that is not empty after the clean-up decides
RECURSIVE TryPatterns(_, _, _, _)
UsePattern(n, text, fieldName, fieldType, m) ==
    IF m # NoMatch /\ m.s # <<>> /\ CleanCapture(m.s) # <<>>
    THEN ConvertValue(CleanCapture(m.s), fieldType)
    ELSE TryPatterns(n + 1, text, fieldName, fieldType)
TryPatterns(n, text, fieldName, fieldType) ==
    IF n > NumPatterns THEN Null
    ELSE UsePattern(n, text, fieldName, fieldType, PatternMatch(n, text, fieldName))

\* lines 232-240: a one-line reply with no ':' is the value of the field 'answer'
SimpleAnswer(text) == StripQuotes(StripStars(Trim(text)))
\* a faulty variant of IsSimpleAnswer: the name of the field is not looked at
IsSimpleAnswerAnyName(text, fieldName) ==
    /\ ~Includes(text, <<":">>) /\ ~Includes(text, <<NL>>)
    /\ SimpleAnswer(text) # <<>>

IsSimpleAnswer(text, fieldName) ==
    /\ fieldName = <<"answer">>
    /\ ~Includes(text, <<":">>) /\ ~Includes(text, <<NL>>)
    /\ SimpleAnswer(text) # <<>>

\* lines 243-254: the field name is put into the patterns as it is, and new RegExp
\* throws a SyntaxError for a name with a parenthesis that has no partner
Count(s, a) == Cardinality({i \in 1..Len(s) : s[i] = a})
IsInvalidPattern(fieldName) == Count(fieldName, "(") # Count(fieldName, ")")
RegExpSyntaxError == Err("SyntaxError", <<"Invalid regular expression">>)

\* extractFieldValue: the value, or Thrown(e)
ExtractFieldValue(text, fieldName, fieldType) ==
    IF IsSimpleAnswer(text, fieldName)
    THEN ConvertValue(SimpleAnswer(text), fieldType)
    ELSE IF IsInvalidPattern(fieldName) THEN Thrown(RegExpSyntaxError)
    ELSE TryPatterns(1, text, fieldName, fieldType)

\* a faulty variant of ParseFieldsOf: a field with no match gets no key
ParseFieldsFound(fields, text) ==
    [k \in {fields[i].name : i \in {j \in 1..Len(fields) :
                ExtractFieldValue(text, fields[j].name, fields[j].type) # Null}} |->
        ExtractFieldValue(text, k, LastField(fields, k).type)]

\* the loop of parseOutputFromString and of parseOutputFromClass: an object, as a
\* function from its keys
ParseFieldsOf(fields, text) ==
    [k \in {fields[i].name : i \in 1..Len(fields)} |->
        ExtractFieldValue(text, k, LastField(fields, k).type)]

\* the loop ends with the object, or with what extractFieldValue threw
ObjectOrThrown(o) ==
    IF \E k \in DOMAIN o : o[k].t = "throw"
    THEN Thrown(RegExpSyntaxError)
    ELSE [t |-> "object", o |-> o]

\* the output keys of a parsed signature, each with parsed.types[outputKey]
TypedOutputs(sigParsed) ==
    [i \in 1..Len(sigParsed.outputs) |->
        [name |-> sigParsed.outputs[i], type |-> sigParsed.types[sigParsed.outputs[i]]]]

\* parseOutputFromString
ParseOutputFromString(sigParsed, text) ==
    IF sigParsed.t = "throw" THEN sigParsed
    ELSE ObjectOrThrown(ParseFieldsOf(TypedOutputs(sigParsed), text))

\* parseOutput of utils/parsing.ts: the object, or Thrown(e)
UtilParseOutput(sig, text) ==
    IF sig.kind = "string"
    THEN ParseOutputFromString(ParseStringSignature(sig.s), text)
    ELSE ObjectOrThrown(ParseFieldsOf(GetOutputFields(sig), text))

-----------------------------------------------------------------------------
(* RespAct: modules/respact.ts *)

\* the largest maxSteps an agent is constructed with
MaxStepsBound == 3

\* the signatures an agent is constructed with
QuestionAnswer == StringSignature(<<"question", SP, "->", SP, "answer">>)
StockQuote == ClassSignature(<<Field("question", "string")>>,
                             <<Field("symbol", "string"), Field("price", "number")>>)
QuestionResult == StringSignature(<<"question", SP, "->", SP, "result">>)
Signatures == {QuestionAnswer, QuestionResult, StockQuote}

\* an entry of options.tools: a {description, function} object, or a bare function
DescribedTool(name, description, function) ==
    [name |-> <<name>>, typeof |-> "object", description |-> description, function |-> function]
FunctionTool(name, function) ==
    [name |-> <<name>>, typeof |-> "function", function |-> function]

\* the tool set an agent is constructed with: its entries in order
ToolOptions == << DescribedTool("add", <<"Adds", SP, "numbers">>, "addFn"),
                  FunctionTool("search", "searchFn") >>

\* a faulty variant of NormalizeTool: every entry gets the default description
NormalizeToolDefault(tool) ==
    [name |-> tool.name, description |-> <<"Tool", ":", SP>> \o tool.name,
     function |-> tool.function]

\* lines 32-41 of the constructor: this.tools[name] for one entry of options.tools
NormalizeTool(tool) ==
    IF tool.typeof = "function"
    THEN [name |-> tool.name, description |-> <<"Tool", ":", SP>> \o tool.name,
          function |-> tool.function]
    ELSE [name |-> tool.name, description |-> tool.description, function |-> tool.function]

\* lines 30-42 of the constructor
NormalizeTools(options) == [i \in 1..Len(options) |-> NormalizeTool(options[i])]

\* this.tools: its entries in order
Tools == NormalizeTools(ToolOptions)
ToolNames == {Tools[i].name : i \in 1..Len(Tools)}

\* what a tool function may return and what it may throw
ToolResults == {Num(5), Str(<<"Final", SP, "Answer", ":", SP, "5">>),
                Str(<<"Action", ":", SP, "add", NL, "Action", SP, "Input", ":", SP, "2", ",", "3">>)}
ToolErrors == {Err("Error", <<"Tool", SP, "failed">>)}
\* what the generate call of the language model may reject with
LMErrors == {Err("Error", <<"API", SP, "error">>)}

\* property names every object inherits from Object.prototype
ObjectPrototypeKeys == {<<"constructor">>, <<"toString">>, <<"valueOf">>, <<"hasOwnProperty">>}

\* toolName in this.tools: the in operator sees own and inherited properties
InTools(toolName) == toolName \in ToolNames \cup ObjectPrototypeKeys

\* parts.join(sep)
RECURSIVE Join(_, _)
Join(parts, sep) ==
    IF Len(parts) = 0 THEN <<>>
    ELSE IF Len(parts) = 1 THEN parts[1]
    ELSE parts[1] \o sep \o Join(Tail(parts), sep)

\* Object.keys(this.tools).join(', ')
ToolList == Join([i \in 1..Len(Tools) |-> Tools[i].name], <<",", SP>>)

\* the question every invocation is given
Question == <<"What", SP, "is", SP, "2", "+", "3", "?">>

\* the names an inputs object is read at; a name it does not hold reads undefined
InputNames == {<<"question">>, <<"context">>}
NoInputs == [n \in InputNames |-> Undefined]
QuestionOnly == [NoInputs EXCEPT ![<<"question">>] = Str(Question)]

\* lines 150-152 of buildInitialPrompt
ToolDescriptions ==
    Join([i \in 1..Len(Tools) |->
            <<"-", SP>> \o Tools[i].name \o <<":", SP>> \o Tools[i].description],
         <<NL>>)

\* the required field names of a class signature, in order
RequiredFields(sig) == [i \in 1..Len(GetOutputFields(sig)) |-> GetOutputFields(sig)[i].name]

\* lines 155-165 of buildInitialPrompt
OutputFormatInstruction(fieldNames) ==
    IF Len(fieldNames) > 0
    THEN <<NL, NL, "IMPORTANT", ":", SP, "provide ALL the following fields", ":", NL, NL>>
         \o Join([i \in 1..Len(fieldNames) |->
                    fieldNames[i] \o <<":", SP, "[your response for ">> \o fieldNames[i] \o <<"]", NL>>],
                 <<>>)
    ELSE <<>>

\* RespAct.buildInitialPrompt.  The prose of the template is kept as one atom per
\* sentence; the format lines are kept atom by atom.
BuildInitialPrompt(sig) ==
    <<"You have access to the following tools", ":", NL>> \o ToolDescriptions
    \o <<NL, NL, "Question", ":", SP>> \o Question
    \o <<NL, NL, "Use this EXACT format", ":", NL,
         "Thought", ":", SP, "[your reasoning]", NL,
         "Action", ":", SP, "[tool name]", NL,
         "Action", SP, "Input", ":", SP, "[input to the tool]", NL, NL,
         "Thought", ":", SP, "[reasoning]", NL,
         "Final", SP, "Answer", ":", SP, "[complete answer]">>
    \o OutputFormatInstruction(IF sig.kind = "class" THEN RequiredFields(sig) ELSE <<>>)
    \o <<NL, NL, "Begin", "!">>

\* the cue appended to the transcript for a generate call, and the reply's entry
ThoughtCue == <<NL, NL, "Thought", ":">>
\* a faulty variant of Thought: the reply is not kept
ThoughtDropped(reply) == <<>>
Thought(reply) == <<NL, NL, "Thought", ":", SP>> \o reply

Observation(text) == <<NL, NL, "Observation", ":", SP>> \o text

RepeatedCallText ==
    <<"You", SP, "have", SP, "already", SP, "made", SP, "this", SP, "tool", SP, "call", ".",
      SP, "Please", SP, "move", SP, "to", SP, "the", SP, "next", SP, "step", ".">>

NotFoundText(toolName) ==
    <<"Error", ":", SP, "Tool", SP, QUOTE>> \o toolName \o <<QUOTE, SP, "not", SP, "found", ".",
      SP, "Available", SP, "tools", ":", SP>> \o ToolList

\* a faulty variant of ExecutionErrorText: the text of forward's own catch clause
ExecutionErrorTextDash(toolName, e) == <<"Error", SP, "-", SP>> \o StringOf(e)

ExecutionErrorText(toolName, e) ==
    <<"Error", SP, "executing", SP>> \o toolName \o <<":", SP>> \o StringOf(e)

CaughtErrorText(e) == <<"Error", SP, "-", SP>> \o StringOf(e)

NeedsFieldsText(requiredFields) ==
    <<"Your", SP, "Final", SP, "Answer", SP, "needs", SP, "to", SP, "include", SP,
      "structured", SP, "fields", ":", SP>> \o Join(requiredFields, <<",", SP>>)
    \o <<".", SP, "Please", SP, "provide", SP, "a", SP, "Final", SP, "Answer", SP, "with",
         SP, "the", SP, "required", SP, "format", ".">>

\* calling a property of this.tools that is not a function
NotAFunction == Err("TypeError", <<"this.tools[toolName].function is not a function">>)

ExceededError(n) ==
    Err("Error", <<"RespAct", SP, "exceeded", SP, "maximum", SP, "steps", SP, "(", NumeralOf(n), ")",
                   SP, "without", SP, "finding", SP, "answer">>)

\* the dedup key `${toolCall.tool}:${toolCall.input}`
ToolCallKey(tc) == tc.tool \o <<":">> \o tc.input

\* a faulty variant of SeenBefore: only the latest key is compared
SeenLast(calls, key) == Len(calls) > 0 /\ calls[Len(calls)] = key

\* previousToolCalls.includes(key)
SeenBefore(calls, key) == \E i \in 1..Len(calls) : calls[i] = key

\* RespAct.parseOutput: a non-string raw output is JSON.stringify-ed first
ParseOutput(sig, rawOutput) ==
    IF sig = NoSignature
    THEN Thrown(Err("Error", <<"No signature provided for RespAct parsing">>))
    ELSE UtilParseOutput(sig, IF rawOutput.t = "string" THEN rawOutput.s
                              ELSE JSONStringify(rawOutput))

\* the empty object
EmptyObject == [k \in {} |-> Null]

\* lines 84-89: parsedFromSignature, {} when parseOutput threw
ParsedOrEmpty(tried) == IF tried.t = "throw" THEN EmptyObject ELSE tried.o

\* the keys of an object whose value is neither null nor undefined
ProvidedFields(o) == {k \in DOMAIN o : o[k] \notin {Null, Undefined}}

\* a faulty variant of RefusedAsIncomplete: the keys are counted, not the values
RefusedIfNoKeys(parsed) == DOMAIN parsed = {}

\* line 100: the structured answer is refused when it provides no field at all
RefusedAsIncomplete(parsed) == Cardinality(ProvidedFields(parsed)) = 0

\* a faulty variant of FinalAnswerData: the parsed fields and nothing else
FinalAnswerDataParsedOnly(parsed, rawAnswer) == parsed

\* a faulty variant of FinalAnswerData: the raw answer and nothing else
FinalAnswerDataRawOnly(parsed, rawAnswer) == (<<"answer">> :> rawAnswer)

\* lines 106-120: the data of the Prediction for an accepted final answer
FinalAnswerData(parsed, rawAnswer) ==
    IF ProvidedFields(parsed) = {} \/ DOMAIN parsed = {}
    THEN (<<"answer">> :> rawAnswer)
    ELSE IF <<"answer">> \notin DOMAIN parsed /\ rawAnswer # Null
    THEN (<<"answer">> :> rawAnswer) @@ parsed
    ELSE parsed

\* a faulty variant of CombinedOutput: the 0-based loop counter
CombinedOutputZeroBased(data, st) == (<<"steps">> :> Num(st)) @@ data

\* line 122: { ...finalAnswerData, steps: step + 1 }
CombinedOutput(data, st) == (<<"steps">> :> Num(st + 1)) @@ data

-----------------------------------------------------------------------------
(* RespAct.forward as a state machine.  forward() suspends at its two awaits: the
   generate call (pc = "awaitLM") and the tool function (pc = "awaitTool"). *)

\* the replies the language model may give
Replies == {
    <<"Action", ":", SP, "add", NL, "Action", SP, "Input", ":", SP, "2", ",", "3">>,
    <<"Action", ":", SP, "add", NL, "Action", SP, "Input", ":", SP, "2", ",", "3", NL,
      "Final", SP, "Answer", ":", SP, "5">>,
    <<"Action", ":", SP, "lookup", NL, "Action", SP, "Input", ":", SP, "AAPL">>,
    <<"Action", ":", SP, "constructor", NL, "Action", SP, "Input", ":", SP, "AAPL">>,
    <<"I", SP, "need", SP, "to", SP, "think">>,
    <<"Action", ":", SP, "add">>,
    <<"Final", SP, "Answer", ":", SP, "Paris">>,
    <<"final", SP, "answer", ":", SP, "Paris">>,
    <<"Final", SP, "Answer", ":", SP, "5">>,
    <<"Final", SP, "Answer", ":", SP, "symbol", ":", SP, "AAPL">>,
    <<"Final", SP, "Answer", ":", SP, "symbol", ":", SP, "AAPL", ",", SP, "price", ":", SP, "150">>,
    <<"Final", SP, "Answer", ":", NL, "symbol", ":", SP, "AAPL", NL, "price", ":", SP, "150">>
}

\* a faulty variant of LoopTest: one iteration too many
LoopTestInclusive(st) == st <= maxSteps

\* the test of the for loop, line 53
LoopTest(st) == st < maxSteps

\* the loop goes on with the counter at st and the transcript conv: the generate
\* call of the next iteration (line 54), or the throw after the loop (line 127)
EnterIteration(st, conv) ==
    /\ step' = st
    /\ conversation' = conv
    /\ IF LoopTest(st)
       THEN /\ pc' = "awaitLM"
            /\ lmCalls' = Append(lmCalls, conv \o ThoughtCue)
            /\ error' = error
       ELSE /\ pc' = "failed"
            /\ error' = ExceededError(maxSteps)
            /\ lmCalls' = lmCalls

\* a faulty variant of ExecuteTool: the tool is started and the loop goes on at once
ExecuteToolNoAwait(conv, tc) ==
    /\ lastEvent' = "invoked"
    /\ toolLog' = Append(toolLog, tc)
    /\ EnterIteration(step + 1, conv)

\* executeTool up to the call of the tool function, lines 210-216, and what forward
\* does with a text it returns at once, lines 70-72
ExecuteTool(conv, tc) ==
    IF ~InTools(tc.tool) THEN
        /\ lastEvent' = "notfound"
        /\ toolLog' = toolLog
        /\ EnterIteration(step + 1, conv \o Observation(NotFoundText(tc.tool)))
    ELSE IF tc.tool \notin ToolNames THEN
        /\ lastEvent' = "notfunction"
        /\ toolLog' = toolLog
        /\ EnterIteration(step + 1, conv \o Observation(ExecutionErrorText(tc.tool, NotAFunction)))
    ELSE
        /\ lastEvent' = "invoked"
        /\ toolLog' = Append(toolLog, tc)
        /\ pc' = "awaitTool"
        /\ conversation' = conv
        /\ UNCHANGED <<step, lmCalls, error>>

\* a faulty variant of HandleToolCall: the key is not recorded when the tool is called
HandleToolCallUnrecorded(conv, tc, key) ==
    /\ toolCall' = tc
    /\ result' = result
    /\ IF SeenBefore(previousToolCalls, key) THEN
           /\ lastEvent' = "repeated"
           /\ UNCHANGED <<previousToolCalls, toolLog>>
           /\ EnterIteration(step + 1, conv \o Observation(RepeatedCallText))
       ELSE
           /\ previousToolCalls' = previousToolCalls
           /\ ExecuteTool(conv, tc)

\* lines 59-77: the reply holds the tool call tc, whose dedup key is key
HandleToolCall(conv, tc, key) ==
    /\ toolCall' = tc
    /\ result' = result
    /\ IF SeenBefore(previousToolCalls, key) THEN
           /\ lastEvent' = "repeated"
           /\ UNCHANGED <<previousToolCalls, toolLog>>
           /\ EnterIteration(step + 1, conv \o Observation(RepeatedCallText))
       ELSE
           /\ previousToolCalls' = Append(previousToolCalls, key)
           /\ ExecuteTool(conv, tc)

\* a faulty variant of HandleParsedAnswer: a refused answer does not use up a step
HandleParsedAnswerFreeRetry(conv, rawAnswer, parsed) ==
    IF signature.kind = "class" /\ RefusedAsIncomplete(parsed) THEN
        /\ lastEvent' = "incomplete"
        /\ result' = result
        /\ EnterIteration(step,
               conv \o Observation(NeedsFieldsText(RequiredFields(signature))))
    ELSE
        /\ lastEvent' = "answered"
        /\ result' = CombinedOutput(FinalAnswerData(parsed, rawAnswer), step)
        /\ pc' = "done"
        /\ conversation' = conv
        /\ UNCHANGED <<step, lmCalls, error>>

\* lines 91-123: the final answer rawAnswer, parsed to the object parsed
HandleParsedAnswer(conv, rawAnswer, parsed) ==
    IF signature.kind = "class" /\ RefusedAsIncomplete(parsed) THEN
        /\ lastEvent' = "incomplete"
        /\ result' = result
        /\ EnterIteration(step + 1,
               conv \o Observation(NeedsFieldsText(RequiredFields(signature))))
    ELSE
        /\ lastEvent' = "answered"
        /\ result' = CombinedOutput(FinalAnswerData(parsed, rawAnswer), step)
        /\ pc' = "done"
        /\ conversation' = conv
        /\ UNCHANGED <<step, lmCalls, error>>

\* lines 81-89
HandleFinalAnswer(conv, rawAnswer) ==
    /\ toolCall' = NoMatch
    /\ UNCHANGED <<previousToolCalls, toolLog>>
    /\ HandleParsedAnswer(conv, rawAnswer, ParsedOrEmpty(ParseOutput(signature, rawAnswer)))

\* line 80
HasFinalAnswer(r) == Includes(ToLowerCase(r), <<"final", SP, "answer", ":">>)

\* a faulty variant of HandleReply: the final answer is looked for first
HandleReplyAnswerFirst(r, conv, tc) ==
    IF HasFinalAnswer(r) THEN HandleFinalAnswer(conv, ExtractFinalAnswer(r))
    ELSE IF tc # NoMatch THEN HandleToolCall(conv, tc, ToolCallKey(tc))
    ELSE
        /\ lastEvent' = "neither"
        /\ toolCall' = NoMatch
        /\ UNCHANGED <<previousToolCalls, toolLog, result>>
        /\ EnterIteration(step + 1, conv)

\* lines 58-125: the body of the loop for the reply r
HandleReply(r, conv, tc) ==
    IF tc # NoMatch THEN HandleToolCall(conv, tc, ToolCallKey(tc))
    ELSE IF HasFinalAnswer(r) THEN HandleFinalAnswer(conv, ExtractFinalAnswer(r))
    ELSE
        /\ lastEvent' = "neither"
        /\ toolCall' = NoMatch
        /\ UNCHANGED <<previousToolCalls, toolLog, result>>
        /\ EnterIteration(step + 1, conv)

\* the locals of a forward() call that has not started: lines 49-51
FreshFrame ==
    [pc |-> "init", step |-> 0, conversation |-> <<>>, previousToolCalls |-> <<>>,
     response |-> <<>>, toolCall |-> NoMatch, result |-> Nothing, error |-> Nothing,
     lmCalls |-> <<>>, replyLog |-> <<>>, toolLog |-> <<>>, lastEvent |-> "constructed"]

\* the usage of an OpenAILM that has counted nothing: the initializer of the field,
\* and what resetUsage assigns
ZeroUsage == [promptTokens |-> 0, completionTokens |-> 0, totalTokens |-> 0, totalCost |-> 0]

\* an OpenAILM after its constructor: usage is the counters, issued and inFlight count
\* the chat calls made and those awaiting fetch, returned is the sum of the figures the
\* API returned since the last reset, reported is what getUsage last returned
NewOpenAILM ==
    [usage |-> ZeroUsage, issued |-> 0, inFlight |-> 0, returned |-> ZeroUsage,
     reported |-> Nothing]

\* no default language model
NoLM == "undefined"

\* the DSPyConfig singleton before any configure(), and no module constructed
NewConfig == [defaultLM |-> NoLM, modules |-> <<>>, thrown |-> Nothing, calls |-> <<>>]

\* no GeminiLM.chat call has been made
NoChat == [pc |-> "idle", given |-> <<>>, messages |-> <<>>, history |-> <<>>, sent |-> Nothing,
           outcome |-> Nothing]

\* no forward() call has started and parseOutput has not been called
NotStarted ==
    /\ pc = "init"
    /\ step = 0
    /\ conversation = <<>>
    /\ previousToolCalls = <<>>
    /\ response = <<>>
    /\ toolCall = NoMatch
    /\ result = Nothing
    /\ error = Nothing
    /\ lmCalls = <<>>
    /\ replyLog = <<>>
    /\ toolLog = <<>>
    /\ lastEvent = "constructed"
    /\ other = FreshFrame
    /\ parseOutcome = Nothing
    /\ parseCalls = <<>>
    /\ builtPrompt = Nothing
    /\ parsedSig = Nothing
    /\ openAILM = NewOpenAILM
    /\ dspyConfig = NewConfig
    /\ geminiChat = NoChat

\* an agent constructed with a signature and the option maxSteps
Init ==
    /\ signature \in Signatures
    /\ maxSteps \in 1..MaxStepsBound
    /\ rawText = <<>>
    /\ moduleKind = "RespAct"
    /\ inputMap = QuestionOnly
    /\ NotStarted

\* forward() is called: lines 49-54
Forward ==
    /\ pc = "init"
    /\ EnterIteration(0, BuildInitialPrompt(signature))
    /\ lastEvent' = "forward"
    /\ UNCHANGED <<utilVars, rawText, parseOutcome, signature, maxSteps, other, previousToolCalls, response, toolCall, result,
                   replyLog, toolLog>>

\* the generate call resolves with the reply r: lines 55-125, up to the next await
LMReply(r) ==
    /\ pc = "awaitLM"
    /\ response' = r
    /\ replyLog' = Append(replyLog, r)
    /\ HandleReply(r, conversation \o Thought(r), ExtractToolCall(r))
    /\ UNCHANGED <<utilVars, rawText, parseOutcome, signature, maxSteps, other>>

\* a faulty variant of ToolReturn: the observation replaces the transcript
ToolReturnForgets(v) ==
    /\ pc = "awaitTool"
    /\ lastEvent' = "toolreturned"
    /\ EnterIteration(step + 1, Observation(StringOf(v)))
    /\ UNCHANGED <<utilVars, rawText, parseOutcome, signature, maxSteps, other, previousToolCalls, response, toolCall, result,
                   replyLog, toolLog>>

\* a faulty variant of ToolReturn: the text the tool returned is scanned for a final
\* answer as a reply is
ToolReturnScanned(v) ==
    /\ pc = "awaitTool"
    /\ lastEvent' = "toolreturned"
    /\ IF HasFinalAnswer(StringOf(v))
       THEN /\ pc' = "done"
            /\ conversation' = conversation \o Observation(StringOf(v))
            /\ result' = CombinedOutput((<<"answer">> :> Str(StringOf(v))), step)
            /\ UNCHANGED <<step, lmCalls, error>>
       ELSE /\ result' = result
            /\ EnterIteration(step + 1, conversation \o Observation(StringOf(v)))
    /\ UNCHANGED <<utilVars, rawText, parseOutcome, signature, maxSteps, other, previousToolCalls, response, toolCall,
                   replyLog, toolLog>>

\* the tool function returns v (or its promise resolves with v): lines 216-217, 71-72
ToolReturn(v) ==
    /\ pc = "awaitTool"
    /\ lastEvent' = "toolreturned"
    /\ EnterIteration(step + 1, conversation \o Observation(StringOf(v)))
    /\ UNCHANGED <<utilVars, rawText, parseOutcome, signature, maxSteps, other, previousToolCalls, response, toolCall, result,
                   replyLog, toolLog>>

\* a faulty variant of ToolThrow: the error leaves forward()
ToolThrowPropagates(e) ==
    /\ pc = "awaitTool"
    /\ lastEvent' = "toolthrew"
    /\ pc' = "failed"
    /\ error' = e
    /\ UNCHANGED <<utilVars, rawText, parseOutcome, signature, maxSteps, other, step, conversation, previousToolCalls, response,
                   toolCall, result, lmCalls, replyLog, toolLog>>

\* the tool function throws e (or its promise rejects with e): executeTool catches it
\* and returns a text, lines 218-220, which forward appends as it does a result
ToolThrow(e) ==
    /\ pc = "awaitTool"
    /\ lastEvent' = "toolthrew"
    /\ EnterIteration(step + 1, conversation \o Observation(ExecutionErrorText(toolCall.tool, e)))
    /\ UNCHANGED <<utilVars, rawText, parseOutcome, signature, maxSteps, other, previousToolCalls, response, toolCall, result,
                   replyLog, toolLog>>

\* a faulty variant of LMReject: the loop catches the rejection and asks again
LMRejectRetried(e) ==
    /\ pc = "awaitLM"
    /\ Len(lmCalls) < MaxStepsBound + 1
    /\ lastEvent' = "lmrejected"
    /\ lmCalls' = Append(lmCalls, conversation \o ThoughtCue)
    /\ UNCHANGED <<utilVars, rawText, parseOutcome, signature, maxSteps, other, pc, step, conversation, previousToolCalls, response,
                   toolCall, result, error, replyLog, toolLog>>

\* the generate call rejects with e: the await of line 54 throws, nothing in forward
\* catches it, and the promise of forward() rejects with e
LMReject(e) ==
    /\ pc = "awaitLM"
    /\ lastEvent' = "lmrejected"
    /\ pc' = "failed"
    /\ error' = e
    /\ UNCHANGED <<utilVars, rawText, parseOutcome, signature, maxSteps, other, step, conversation, previousToolCalls, response,
                   toolCall, result, lmCalls, replyLog, toolLog>>

\* the locals of the forward() call that is running
Running ==
    [pc |-> pc, step |-> step, conversation |-> conversation,
     previousToolCalls |-> previousToolCalls, response |-> response, toolCall |-> toolCall,
     result |-> result, error |-> error, lmCalls |-> lmCalls, replyLog |-> replyLog,
     toolLog |-> toolLog, lastEvent |-> lastEvent]

\* a faulty variant of Switch: the dedup keys are kept on the instance
SwitchSharedDedup ==
    /\ other' = Running
    /\ pc' = other.pc /\ step' = other.step /\ conversation' = other.conversation
    /\ response' = other.response /\ toolCall' = other.toolCall
    /\ result' = other.result /\ error' = other.error /\ lmCalls' = other.lmCalls
    /\ replyLog' = other.replyLog /\ toolLog' = other.toolLog /\ lastEvent' = other.lastEvent
    /\ UNCHANGED <<utilVars, rawText, parseOutcome, signature, maxSteps, previousToolCalls>>

\* the event loop goes on with the other forward() call of the instance: every call
\* has its own locals (lines 49-53) and shares this.signature, this.tools, this.maxSteps
Switch ==
    /\ other' = Running
    /\ pc' = other.pc /\ step' = other.step /\ conversation' = other.conversation
    /\ previousToolCalls' = other.previousToolCalls
    /\ response' = other.response /\ toolCall' = other.toolCall
    /\ result' = other.result /\ error' = other.error /\ lmCalls' = other.lmCalls
    /\ replyLog' = other.replyLog /\ toolLog' = other.toolLog /\ lastEvent' = other.lastEvent
    /\ UNCHANGED <<utilVars, rawText, parseOutcome, signature, maxSteps>>

Next ==
    \/ Forward
    \/ \E r \in Replies : LMReply(r)
    \/ \E e \in LMErrors : LMReject(e)
    \/ \E v \in ToolResults : ToolReturn(v)
    \/ \E e \in ToolErrors : ToolThrow(e)

Spec == Init /\ [][Next]_vars


\* an agent constructed with no signature at all
UnsignedInit ==
    /\ signature = NoSignature
    /\ maxSteps \in 1..MaxStepsBound
    /\ rawText = <<>>
    /\ moduleKind = "RespAct"
    /\ inputMap = QuestionOnly
    /\ NotStarted

UnsignedSpec == UnsignedInit /\ [][Next]_vars

-----------------------------------------------------------------------------
(* Two forward() calls on one RespAct instance, interleaved at their awaits *)

\* the largest maxSteps of the instance that is called twice
TwoCallSteps == 2

\* the replies the language model may give to either call
TwoCallReplies == {
    <<"Action", ":", SP, "add", NL, "Action", SP, "Input", ":", SP, "2", ",", "3">>,
    <<"I", SP, "need", SP, "to", SP, "think">>,
    <<"Final", SP, "Answer", ":", SP, "Paris">>
}

TwoInit ==
    /\ signature = QuestionAnswer
    /\ maxSteps \in 1..TwoCallSteps
    /\ rawText = <<>>
    /\ moduleKind = "RespAct"
    /\ inputMap = QuestionOnly
    /\ NotStarted

TwoNext ==
    \/ Forward
    \/ \E r \in TwoCallReplies : LMReply(r)
    \/ ToolReturn(Num(5))
    \/ \E e \in ToolErrors : ToolThrow(e)
    \/ Switch

TwoCalls == TwoInit /\ [][TwoNext]_vars

-----------------------------------------------------------------------------
(* parseOutput of utils/parsing.ts called on its own *)

\* the signatures parseOutput is called with
AnswerConfidence ==
    StringSignature(<<"question", SP, "->", SP, "answer", ",", SP, "confidence", ":", SP, "number">>)
AnswerNumber == StringSignature(<<"question", SP, "->", SP, "answer", ":", SP, "number">>)
FlagItems ==
    StringSignature(<<"input", SP, "->", SP, "flag", ":", SP, "boolean", ",", SP, "items", ":", SP, "list">>)
TotalParen == StringSignature(<<"question", SP, "->", SP, "total", "(">>)
NumVal == StringSignature(<<"input", SP, "->", SP, "num_val", ":", SP, "int">>)
ParserSignatures ==
    {QuestionAnswer, QuestionResult, AnswerConfidence, AnswerNumber, FlagItems, TotalParen,
     StockQuote, NumVal}

\* the texts parseOutput is called with
RawOutputs == {
    <<>>,
    <<"Paris">>,
    <<SP, "Paris", SP>>,
    <<"*", "*", "Paris", "*", "*">>,
    <<"42">>,
    <<"answer", ":", SP, "Paris">>,
    <<"result", ":", SP, "5", NL, "confidence", ":", SP, "high">>,
    <<"symbol", ":", SP, "AAPL", NL, "price", ":", SP, "150">>,
    <<"flag", ":", SP, "true", NL, "items", ":", SP, "a", ",", SP, "b">>,
    <<"total", ":", SP, "5">>,
    <<"num_val", ":", SP, "42">>,
    <<"num_val", ":", SP, "not_a_number">>,
    <<"num_val", ":", SP, "42", SP, "apples">>,
    <<"other", ":", SP, "value">>
}

\* the largest number of parseOutput calls in one run
MaxParseCalls == 3

ParserInit ==
    /\ signature \in ParserSignatures
    /\ maxSteps = 1
    /\ rawText \in RawOutputs
    /\ moduleKind = "none"
    /\ inputMap = NoInputs
    /\ NotStarted

\* parseOutput with a regular expression that is kept between the calls and matches
\* from where its last match ended: every second call finds nothing
ParseOutputCallSticky ==
    /\ Len(parseCalls) < MaxParseCalls
    /\ parseOutcome' = UtilParseOutput(signature, IF Len(parseCalls) % 2 = 1 THEN <<>> ELSE rawText)
    /\ parseCalls' = Append(parseCalls, TRUE)
    /\ UNCHANGED <<lmVars, moduleKind, inputMap, builtPrompt, parsedSig, rawText, signature, maxSteps,
                   other, pc, step, conversation, previousToolCalls, response, toolCall,
                   result, error, lmCalls, replyLog, toolLog, lastEvent>>

\* parseOutput(signature, rawText) is called
ParseOutputCall ==
    /\ Len(parseCalls) < MaxParseCalls
    /\ parseOutcome' = UtilParseOutput(signature, rawText)
    /\ parseCalls' = Append(parseCalls, TRUE)
    /\ UNCHANGED <<lmVars, moduleKind, inputMap, builtPrompt, parsedSig, rawText, signature, maxSteps,
                   other, pc, step, conversation, previousToolCalls, response, toolCall,
                   result, error, lmCalls, replyLog, toolLog, lastEvent>>

\* parseOutput is called with another signature and another text, and what it returns
\* is dropped: the function writes to nothing but its own locals
ParseOutputOther(sig, text) ==
    /\ Len(parseCalls) < MaxParseCalls
    /\ <<sig, text>> # <<signature, rawText>>
    /\ UtilParseOutput(sig, text) # Nothing
    /\ parseCalls' = Append(parseCalls, FALSE)
    /\ UNCHANGED <<lmVars, moduleKind, inputMap, builtPrompt, parsedSig, rawText, parseOutcome,
                   signature, maxSteps, other, pc, step, conversation, previousToolCalls,
                   response, toolCall, result, error, lmCalls, replyLog, toolLog, lastEvent>>

\* the signatures and texts of the calls made in between
OtherParses == {
    <<QuestionAnswer, <<"Paris">>>>,
    <<NumVal, <<"num_val", ":", SP, "42">>>>,
    <<TotalParen, <<"total", ":", SP, "5">>>>
}

ParserNext ==
    \/ ParseOutputCall
    \/ \E call \in OtherParses : ParseOutputOther(call[1], call[2])

ParserSpec == ParserInit /\ [][ParserNext]_vars

-----------------------------------------------------------------------------
(* buildPrompt of utils/parsing.ts called on its own *)

\* the function an object inherits under the name k
InheritedFunction(k) ==
    [t |-> "function", name |-> IF k = <<"constructor">> THEN <<"Object">> ELSE k]

\* inputs[key]: the own value, else what Object.prototype holds under the name, else
\* undefined
InputValue(inputs, key) ==
    IF key \in DOMAIN inputs /\ inputs[key] # Undefined THEN inputs[key]
    ELSE IF key \in ObjectPrototypeKeys THEN InheritedFunction(key)
    ELSE Undefined

\* the loop over parsed.inputs, from the i-th key on: one line per key whose value is
\* not undefined
RECURSIVE StringInputLines(_, _, _)
StringInputLines(keys, inputs, i) ==
    IF i > Len(keys) THEN <<>>
    ELSE (IF InputValue(inputs, keys[i]) # Undefined
          THEN keys[i] \o <<":", SP>> \o StringOf(InputValue(inputs, keys[i])) \o <<NL>>
          ELSE <<>>)
         \o StringInputLines(keys, inputs, i + 1)

\* the lines of the output fields when there are several
RECURSIVE OutputFieldLines(_, _)
OutputFieldLines(sigParsed, i) ==
    IF i > Len(sigParsed.outputs) THEN <<>>
    ELSE sigParsed.outputs[i] \o <<SP, "(">> \o sigParsed.types[sigParsed.outputs[i]]
         \o <<")", ":", SP, "[your response]", NL>> \o OutputFieldLines(sigParsed, i + 1)

\* the output format of buildPromptFromString
StringOutputFormat(sigParsed) ==
    IF Len(sigParsed.outputs) = 1
    THEN <<NL, "Provide the", SP>> \o sigParsed.outputs[1] \o <<SP, "in this format", ":", NL>>
         \o sigParsed.outputs[1] \o <<":", SP, "[your response]">>
    ELSE <<NL, "Provide the following fields", ":", NL>> \o OutputFieldLines(sigParsed, 1)

\* buildPromptFromString
BuildPromptFromString(sigParsed, inputs) ==
    IF sigParsed.t = "throw" THEN sigParsed
    ELSE Str(Trim(StringInputLines(sigParsed.inputs, inputs, 1) \o StringOutputFormat(sigParsed)))

\* config.prefix || `${key}:`
PrefixOf(field) ==
    IF "prefix" \in DOMAIN field /\ field.prefix # <<>> THEN field.prefix
    ELSE field.name \o <<":">>

\* the forEach over the input fields of a class, from the i-th entry on
RECURSIVE ClassInputLines(_, _, _)
ClassInputLines(fields, inputs, i) ==
    IF i > Len(fields) THEN <<>>
    ELSE (IF InputValue(inputs, fields[i].name) # Undefined
          THEN PrefixOf(fields[i]) \o <<SP>>
               \o StringOf(InputValue(inputs, fields[i].name)) \o <<NL>>
          ELSE <<>>)
         \o ClassInputLines(fields, inputs, i + 1)

\* the forEach over the output fields of a class: the decorator gives every field the
\* description "Output field: <key>"
RECURSIVE ClassOutputLines(_, _)
ClassOutputLines(fields, i) ==
    IF i > Len(fields) THEN <<>>
    ELSE fields[i].name \o <<SP, "(", "Output field", ":", SP>> \o fields[i].name
         \o <<")", ":", NL>> \o ClassOutputLines(fields, i + 1)

\* buildPromptFromClass
BuildPromptFromClass(sig, inputs) ==
    Str(Trim((IF "description" \in DOMAIN sig THEN sig.description \o <<NL, NL>> ELSE <<>>)
             \o ClassInputLines(sig.inputs, inputs, 1)
             \o <<NL, "Provide", ":", NL>>
             \o ClassOutputLines(sig.outputs, 1)))

\* buildPrompt: the prompt as a string value, or Thrown(e)
BuildPrompt(sig, inputs) ==
    IF sig.kind = "string"
    THEN BuildPromptFromString(ParseStringSignature(sig.s), inputs)
    ELSE BuildPromptFromClass(sig, inputs)

\* the signatures buildPrompt is called with
QuestionContext ==
    StringSignature(<<"question", ",", SP, "context", SP, "->", SP, "answer">>)
QuestionContextConfidence ==
    StringSignature(<<"question", ",", SP, "context", SP, "->", SP, "answer", ",", SP,
                      "confidence", ":", SP, "float">>)
QuestionConstructor ==
    StringSignature(<<"question", ",", SP, "constructor", SP, "->", SP, "answer">>)
ContextQuestion ==
    [kind |-> "class",
     description |-> <<"Answer from the context">>,
     inputs |-> <<Field("context", "string"),
                  [name |-> <<"question">>, type |-> <<"string">>, prefix |-> <<"Q", ":">>]>>,
     outputs |-> <<Field("answer", "string")>>]
PromptSignatures ==
    {QuestionAnswer, QuestionContext, QuestionContextConfidence, QuestionConstructor,
     StockQuote, ContextQuestion}

\* the values an input may have
InputValues == {Undefined, Null, Str(<<"Paris">>), Num(5)}
InputMaps == [InputNames -> InputValues]

PromptInit ==
    /\ signature \in PromptSignatures
    /\ maxSteps = 1
    /\ rawText = <<>>
    /\ moduleKind = "none"
    /\ inputMap \in InputMaps
    /\ NotStarted

\* buildPrompt(signature, inputMap) is called
BuildPromptCall ==
    /\ builtPrompt = Nothing
    /\ builtPrompt' = BuildPrompt(signature, inputMap)
    /\ UNCHANGED <<lmVars, parseCalls, moduleKind, inputMap, parsedSig, rawText, parseOutcome,
                   signature, maxSteps, other, pc, step, conversation, previousToolCalls,
                   response, toolCall, result, error, lmCalls, replyLog, toolLog, lastEvent>>

PromptNext == BuildPromptCall

PromptSpec == PromptInit /\ [][PromptNext]_vars

-----------------------------------------------------------------------------
(* Signature.parseStringSignature called on its own *)

\* the lists of input names and of output fields that are written into signature
\* strings; an output field with the type <<>> is written without a type
WrittenInputs == {
    <<"question">>,
    <<"question", "context">>,
    <<"input1", "input2">>
}
WrittenOutputs == {
    <<[name |-> "answer", type |-> <<>>]>>,
    <<[name |-> "answer", type |-> <<"string">>], [name |-> "confidence", type |-> <<"float">>]>>,
    <<[name |-> "output1", type |-> <<"int">>], [name |-> "output2", type |-> <<>>]>>,
    <<[name |-> "count", type |-> <<"number">>]>>
}
\* the whitespace written around every name, type and separator
Paddings == {<<>>, <<SP>>, <<SP, SP>>}

\* the text of a field list: a name, or name: type, per field, separated by commas
RECURSIVE WrittenNames(_, _)
WrittenNames(names, pad) ==
    IF Len(names) = 0 THEN <<>>
    ELSE pad \o <<names[1]>> \o pad
         \o (IF Len(names) = 1 THEN <<>> ELSE <<",">> \o WrittenNames(Tail(names), pad))
RECURSIVE WrittenFields(_, _)
WrittenFields(fields, pad) ==
    IF Len(fields) = 0 THEN <<>>
    ELSE pad \o <<fields[1].name>> \o pad
         \o (IF fields[1].type = <<>> THEN <<>> ELSE <<":">> \o pad \o fields[1].type \o pad)
         \o (IF Len(fields) = 1 THEN <<>> ELSE <<",">> \o WrittenFields(Tail(fields), pad))

\* the signature strings: inputs -> outputs
Written(ins, outs, pad) == WrittenNames(ins, pad) \o <<"->">> \o WrittenFields(outs, pad)
\* with no separator at all
WrittenNoArrow(ins, outs, pad) == WrittenNames(ins, pad) \o WrittenFields(outs, pad)
\* with a second separator and more text after it
WrittenTwoArrows(ins, outs, pad) ==
    Written(ins, outs, pad) \o <<"->">> \o pad \o <<"extra">>

SignatureStrings ==
    {Written(ins, outs, pad) : ins \in WrittenInputs, outs \in WrittenOutputs, pad \in Paddings}
    \cup {WrittenNoArrow(ins, outs, pad) :
              ins \in WrittenInputs, outs \in WrittenOutputs, pad \in Paddings}
    \cup {WrittenTwoArrows(ins, outs, pad) :
              ins \in WrittenInputs, outs \in WrittenOutputs, pad \in Paddings}

SignatureInit ==
    /\ signature \in {StringSignature(s) : s \in SignatureStrings}
    /\ maxSteps = 1
    /\ rawText = <<>>
    /\ moduleKind = "none"
    /\ inputMap = NoInputs
    /\ NotStarted

\* Signature.parseStringSignature(signature) is called
ParseSignatureCall ==
    /\ parsedSig = Nothing
    /\ parsedSig' = ParseStringSignature(signature.s)
    /\ UNCHANGED <<lmVars, parseCalls, moduleKind, inputMap, builtPrompt, rawText, parseOutcome,
                   signature, maxSteps, other, pc, step, conversation, previousToolCalls,
                   response, toolCall, result, error, lmCalls, replyLog, toolLog, lastEvent>>

SignatureNext == ParseSignatureCall

SignatureSpec == SignatureInit /\ [][SignatureNext]_vars

-----------------------------------------------------------------------------
(* Predict.forward and ChainOfThought.forward *)

\* error instanceof Error ? error.message : String(error)
CauseOf(e) == IF e.t = "error" THEN e.message ELSE StringOf(e)

\* every module fails with the words of Predict
FailurePrefixUniform(kind) == <<"Prediction failed">>

\* the words the catch of forward puts before the cause
FailurePrefix(kind) ==
    IF kind = "ChainOfThought" THEN <<"ChainOfThought failed">> ELSE <<"Prediction failed">>

\* the Error the catch of forward throws
Failure(kind, e) == Err("Error", FailurePrefix(kind) \o <<":", SP>> \o CauseOf(e))

\* Predict.buildPrompt: the prompt as a string value, or Thrown(e)
PredictBuildPrompt(sig, inputs) ==
    IF sig = NoSignature THEN Thrown(Err("Error", <<"No signature provided">>))
    ELSE BuildPrompt(sig, inputs)

\* Predict.parseOutput: the object, or Thrown(e)
PredictParseOutput(sig, rawOutput) ==
    IF sig = NoSignature THEN Thrown(Err("Error", <<"No signature provided">>))
    ELSE UtilParseOutput(sig, rawOutput)

\* ChainOfThought.buildReasoningPrompt and buildFinalPrompt, given the base prompt
BuildReasoningPrompt(basePrompt) ==
    basePrompt \o <<NL, NL, "Let's think step by step. Please provide your reasoning", ":">>
BuildFinalPromptBare(basePrompt, reasoning) ==
    basePrompt \o <<NL, NL, "Based on this reasoning, provide your final answer", ":">>
BuildFinalPrompt(basePrompt, reasoning) ==
    basePrompt \o <<NL, NL, "Reasoning", ":", SP>> \o reasoning
    \o <<NL, NL, "Based on this reasoning, provide your final answer", ":">>

\* the catch of forward: the call fails with the wrapped error
Fail(e) ==
    /\ pc' = "failed"
    /\ error' = Failure(moduleKind, e)

\* lm.generate(prompt) is called and awaited
Generate(prompt, awaiting) ==
    /\ pc' = awaiting
    /\ lmCalls' = Append(lmCalls, prompt)
    /\ error' = error

\* lines 196-197 of Predict.forward, given what buildPrompt gave
PredictStart(built) ==
    IF built.t = "throw" THEN Fail(built.e) /\ lmCalls' = lmCalls
    ELSE Generate(built.s, "awaitLM")

\* Predict.forward is called
PredictForward ==
    /\ moduleKind = "Predict"
    /\ pc = "init"
    /\ PredictStart(PredictBuildPrompt(signature, inputMap))
    /\ lastEvent' = "forward"
    /\ UNCHANGED <<utilVars, rawText, parseOutcome, signature, maxSteps, other, step,
                   conversation, previousToolCalls, toolCall, toolLog, response, result, replyLog>>

\* lines 199-201 of Predict.forward, given what parseOutput gave
PredictFinish(tried) ==
    IF tried.t = "throw" THEN Fail(tried.e) /\ result' = result
    ELSE pc' = "done" /\ result' = tried.o /\ error' = error

\* the generate call of Predict.forward resolves with the reply r
PredictReply(r) ==
    /\ moduleKind = "Predict"
    /\ pc = "awaitLM"
    /\ response' = r
    /\ replyLog' = Append(replyLog, r)
    /\ PredictFinish(PredictParseOutput(signature, r))
    /\ lastEvent' = "replied"
    /\ UNCHANGED <<utilVars, rawText, parseOutcome, signature, maxSteps, other, step,
                   conversation, previousToolCalls, toolCall, toolLog, lmCalls>>

\* lines 12-13 of ChainOfThought.forward, given what buildPrompt gave
ChainOfThoughtStart(built) ==
    IF built.t = "throw" THEN Fail(built.e) /\ lmCalls' = lmCalls
    ELSE Generate(BuildReasoningPrompt(built.s), "awaitReasoning")

\* ChainOfThought.forward is called
ChainOfThoughtForward ==
    /\ moduleKind = "ChainOfThought"
    /\ pc = "init"
    /\ ChainOfThoughtStart(PredictBuildPrompt(signature, inputMap))
    /\ lastEvent' = "forward"
    /\ UNCHANGED <<utilVars, rawText, parseOutcome, signature, maxSteps, other, step,
                   conversation, previousToolCalls, toolCall, toolLog, response, result, replyLog>>

\* lines 16-17, given what buildPrompt gave and the reasoning
ChainOfThoughtContinue(built, reasoning) ==
    IF built.t = "throw" THEN Fail(built.e) /\ lmCalls' = lmCalls
    ELSE Generate(BuildFinalPrompt(built.s, reasoning), "awaitAnswer")

\* the first generate call resolves with the reasoning r
ReasoningReply(r) ==
    /\ moduleKind = "ChainOfThought"
    /\ pc = "awaitReasoning"
    /\ response' = r
    /\ replyLog' = Append(replyLog, r)
    /\ ChainOfThoughtContinue(PredictBuildPrompt(signature, inputMap), r)
    /\ lastEvent' = "reasoned"
    /\ UNCHANGED <<utilVars, rawText, parseOutcome, signature, maxSteps, other, step,
                   conversation, previousToolCalls, toolCall, toolLog, result>>

\* lines 20-25, given what parseOutput gave: { ...parsed, reasoning }
ChainOfThoughtFinish(tried, reasoning) ==
    IF tried.t = "throw" THEN Fail(tried.e) /\ result' = result
    ELSE pc' = "done" /\ result' = (<<"reasoning">> :> Str(reasoning)) @@ tried.o
         /\ error' = error

\* the second generate call resolves with the reply r
AnswerReply(r) ==
    /\ moduleKind = "ChainOfThought"
    /\ pc = "awaitAnswer"
    /\ replyLog' = Append(replyLog, r)
    /\ ChainOfThoughtFinish(PredictParseOutput(signature, r), response)
    /\ lastEvent' = "replied"
    /\ UNCHANGED <<utilVars, rawText, parseOutcome, signature, maxSteps, other, step,
                   conversation, previousToolCalls, toolCall, toolLog, response, lmCalls>>

\* the largest number of generate calls a forward that asks again would make
MaxRetries == 3

\* a faulty variant of GenerateRejects: forward asks the model again
GenerateRejectsRetried(e) ==
    /\ pc \in {"awaitLM", "awaitReasoning", "awaitAnswer"}
    /\ Len(lmCalls) < MaxRetries
    /\ lmCalls' = Append(lmCalls, lmCalls[Len(lmCalls)])
    /\ lastEvent' = "lmrejected"
    /\ UNCHANGED <<utilVars, rawText, parseOutcome, signature, maxSteps, other, step,
                   conversation, previousToolCalls, toolCall, toolLog, pc, error, response, result, replyLog>>

\* a generate call rejects with e: the await throws into the catch of forward
GenerateRejects(e) ==
    /\ pc \in {"awaitLM", "awaitReasoning", "awaitAnswer"}
    /\ Fail(e)
    /\ lastEvent' = "lmrejected"
    /\ UNCHANGED <<utilVars, rawText, parseOutcome, signature, maxSteps, other, step,
                   conversation, previousToolCalls, toolCall, toolLog, response, result, lmCalls, replyLog>>

\* the signatures the modules are constructed with
ArrowLess == StringSignature(<<"question", SP, "answer">>)
PredictSignatures ==
    {QuestionAnswer, QuestionContext, TotalParen, ArrowLess, StockQuote, NoSignature}

\* the inputs forward is called with
BothInputs == [QuestionOnly EXCEPT ![<<"context">>] = Str(<<"France">>)]
PredictInputs == {NoInputs, QuestionOnly, BothInputs}

\* the replies of the language model, and what its generate call rejects with
PredictReplies == {
    <<"Paris">>,
    <<"answer", ":", SP, "Paris">>,
    <<"total", ":", SP, "5">>,
    <<"reasoning", ":", SP, "none", NL, "answer", ":", SP, "Paris">>
}
PredictErrors == LMErrors \cup {Str(<<"timeout">>)}

PredictInit ==
    /\ signature \in PredictSignatures
    /\ maxSteps = 1
    /\ rawText = <<>>
    /\ moduleKind \in {"Predict", "ChainOfThought"}
    /\ inputMap \in PredictInputs
    /\ NotStarted

PredictNext ==
    \/ PredictForward
    \/ \E r \in PredictReplies : PredictReply(r)
    \/ ChainOfThoughtForward
    \/ \E r \in PredictReplies : ReasoningReply(r)
    \/ \E r \in PredictReplies : AnswerReply(r)
    \/ \E e \in PredictErrors : GenerateRejects(e)

PredictSpec == PredictInit /\ [][PredictNext]_vars

-----------------------------------------------------------------------------
(* OpenAILM: chat, getUsage, resetUsage *)

\* the largest number of chat calls made on the instance
MaxChatCalls == 3

\* the usage objects the API returns with a completion; a figure may be missing
UsageFigures == {
    [prompt_tokens |-> 10, completion_tokens |-> 20, total_tokens |-> 30],
    [prompt_tokens |-> 5, completion_tokens |-> 5, total_tokens |-> 10],
    [prompt_tokens |-> 8]
}

\* data.usage.<figure> || 0
FigureOrZero(u, figure) == IF figure \in DOMAIN u THEN u[figure] ELSE 0

\* lines 93-100: the counters after the usage u was added.  totalCost is kept in units
\* of 10^-7 dollars: 0.0015 / 1000 per prompt token, 0.002 / 1000 per completion token
AddUsage(usage, u) ==
    [promptTokens |-> usage.promptTokens + FigureOrZero(u, "prompt_tokens"),
     completionTokens |-> usage.completionTokens + FigureOrZero(u, "completion_tokens"),
     totalTokens |-> usage.totalTokens + FigureOrZero(u, "total_tokens"),
     totalCost |-> usage.totalCost + 15 * FigureOrZero(u, "prompt_tokens")
                                   + 20 * FigureOrZero(u, "completion_tokens")]

\* chat (or generate, which calls it) is called: lines 45-76, up to the await of fetch
Chat ==
    /\ openAILM.issued < MaxChatCalls
    /\ openAILM' = [openAILM EXCEPT !.issued = @ + 1, !.inFlight = @ + 1]
    /\ UNCHANGED <<parseCalls, moduleKind, inputMap, builtPrompt, parsedSig, dspyConfig,
                   geminiChat, rawText, parseOutcome, signature, maxSteps, other, pc, step,
                   conversation, previousToolCalls, response, toolCall, result, error,
                   lmCalls, replyLog, toolLog, lastEvent>>

\* fetch resolves with an ok response whose body holds the usage u: lines 89-103
FetchOk(u) ==
    /\ openAILM.inFlight > 0
    /\ openAILM' = [openAILM EXCEPT !.inFlight = @ - 1,
                                    !.usage = AddUsage(@, u),
                                    !.returned = AddUsage(@, u)]
    /\ UNCHANGED <<parseCalls, moduleKind, inputMap, builtPrompt, parsedSig, dspyConfig,
                   geminiChat, rawText, parseOutcome, signature, maxSteps, other, pc, step,
                   conversation, previousToolCalls, response, toolCall, result, error,
                   lmCalls, replyLog, toolLog, lastEvent>>

\* fetch resolves with an ok response whose body holds no usage: line 92 is false
FetchOkNoUsage ==
    /\ openAILM.inFlight > 0
    /\ openAILM' = [openAILM EXCEPT !.inFlight = @ - 1]
    /\ UNCHANGED <<parseCalls, moduleKind, inputMap, builtPrompt, parsedSig, dspyConfig,
                   geminiChat, rawText, parseOutcome, signature, maxSteps, other, pc, step,
                   conversation, previousToolCalls, response, toolCall, result, error,
                   lmCalls, replyLog, toolLog, lastEvent>>

\* a chat that counts the usage an error body holds
FetchNotOkCounted(u) ==
    /\ openAILM.inFlight > 0
    /\ openAILM' = [openAILM EXCEPT !.inFlight = @ - 1, !.usage = AddUsage(@, u)]
    /\ UNCHANGED <<parseCalls, moduleKind, inputMap, builtPrompt, parsedSig, dspyConfig,
                   geminiChat, rawText, parseOutcome, signature, maxSteps, other, pc, step,
                   conversation, previousToolCalls, response, toolCall, result, error,
                   lmCalls, replyLog, toolLog, lastEvent>>

\* fetch resolves with a response that is not ok, whatever its body: lines 78-87 throw
FetchNotOk(u) ==
    /\ openAILM.inFlight > 0
    /\ openAILM' = [openAILM EXCEPT !.inFlight = @ - 1]
    /\ UNCHANGED <<parseCalls, moduleKind, inputMap, builtPrompt, parsedSig, dspyConfig,
                   geminiChat, rawText, parseOutcome, signature, maxSteps, other, pc, step,
                   conversation, previousToolCalls, response, toolCall, result, error,
                   lmCalls, replyLog, toolLog, lastEvent>>

\* getUsage: a copy of the counters
GetUsage ==
    /\ openAILM' = [openAILM EXCEPT !.reported = openAILM.usage]
    /\ UNCHANGED <<parseCalls, moduleKind, inputMap, builtPrompt, parsedSig, dspyConfig,
                   geminiChat, rawText, parseOutcome, signature, maxSteps, other, pc, step,
                   conversation, previousToolCalls, response, toolCall, result, error,
                   lmCalls, replyLog, toolLog, lastEvent>>

\* resetUsage
ResetUsage ==
    /\ openAILM' = [openAILM EXCEPT !.usage = ZeroUsage, !.returned = ZeroUsage]
    /\ UNCHANGED <<parseCalls, moduleKind, inputMap, builtPrompt, parsedSig, dspyConfig,
                   geminiChat, rawText, parseOutcome, signature, maxSteps, other, pc, step,
                   conversation, previousToolCalls, response, toolCall, result, error,
                   lmCalls, replyLog, toolLog, lastEvent>>

UsageInit ==
    /\ signature = QuestionAnswer
    /\ maxSteps = 1
    /\ rawText = <<>>
    /\ moduleKind = "none"
    /\ inputMap = NoInputs
    /\ NotStarted

UsageNext ==
    \/ Chat
    \/ \E u \in UsageFigures : FetchOk(u)
    \/ FetchOkNoUsage
    \/ \E u \in UsageFigures : FetchNotOk(u)
    \/ GetUsage
    \/ ResetUsage

UsageSpec == UsageInit /\ [][UsageNext]_vars

-----------------------------------------------------------------------------
(* RespAct.forward with tool names and inputs that hold a colon *)

\* replies whose tool name or tool input holds ':' (extractToolCall captures the rest of
\* the line for either, lines 196-197)
ColonReplies == {
    <<"Action", ":", SP, "add", NL, "Action", SP, "Input", ":", SP, "x", ":", "2", ",", "3">>,
    <<"Action", ":", SP, "add", ":", "x", NL, "Action", SP, "Input", ":", SP, "2", ",", "3">>,
    <<"Action", ":", SP, "add", NL, "Action", SP, "Input", ":", SP, "2", ",", "3">>,
    <<"Final", SP, "Answer", ":", SP, "Paris">>
}

ColonInit ==
    /\ signature = QuestionAnswer
    /\ maxSteps \in 1..MaxStepsBound
    /\ rawText = <<>>
    /\ moduleKind = "RespAct"
    /\ inputMap = QuestionOnly
    /\ NotStarted

ColonNext ==
    \/ Forward
    \/ \E r \in ColonReplies : LMReply(r)
    \/ \E e \in LMErrors : LMReject(e)
    \/ \E v \in ToolResults : ToolReturn(v)
    \/ \E e \in ToolErrors : ToolThrow(e)

ColonSpec == ColonInit /\ [][ColonNext]_vars

-----------------------------------------------------------------------------
(* RespAct constructed with any maxSteps option *)

\* the budget when the option is omitted, line 43
DefaultMaxSteps == 6

\* the maxSteps options an agent is constructed with: omitted, 0, a negative number, and
\* positive numbers
StepOptions == {Undefined, Num(0), Num(-1), Num(1), Num(2)}

\* line 43: options.maxSteps || 6 (undefined and 0 are falsy, every other number is kept)
MaxStepsOf(option) ==
    IF option = Undefined THEN DefaultMaxSteps
    ELSE IF option.n = 0 THEN DefaultMaxSteps
    ELSE option.n

\* the replies of the language model to an agent of any budget
BudgetReplies == {
    <<"Action", ":", SP, "add", NL, "Action", SP, "Input", ":", SP, "2", ",", "3">>,
    <<"I", SP, "need", SP, "to", SP, "think">>,
    <<"Final", SP, "Answer", ":", SP, "Paris">>
}

BudgetInit ==
    /\ signature = QuestionAnswer
    /\ maxSteps \in {MaxStepsOf(o) : o \in StepOptions}
    /\ rawText = <<>>
    /\ moduleKind = "RespAct"
    /\ inputMap = QuestionOnly
    /\ NotStarted

BudgetNext ==
    \/ Forward
    \/ \E r \in BudgetReplies : LMReply(r)
    \/ \E e \in LMErrors : LMReject(e)
    \/ \E v \in ToolResults : ToolReturn(v)
    \/ \E e \in ToolErrors : ToolThrow(e)

BudgetSpec == BudgetInit /\ [][BudgetNext]_vars

-----------------------------------------------------------------------------
(* core/config.ts and the constructor of Module: the default language model *)

\* the most modules constructed and the most generate calls made through them
MaxModules == 2
MaxModuleCalls == 2

\* the language models a program has
LanguageModels == {"lmA", "lmB"}

\* the lm option of configure() and the lm argument of a constructor: a language model,
\* or left out
LMOptions == LanguageModels \cup {NoLM}

\* getDefaultLM throws this: config.ts lines 31-35
NoDefaultLMError ==
    Err("Error", <<"No", SP, "default", SP, "language", SP, "model", SP, "configured", ".", SP,
                   "Call configure({ lm: ... }) first.">>)

\* config.ts line 24: only an lm that was given replaces the default
ConfiguredLM(defaultLM, lm) == IF lm # NoLM THEN lm ELSE defaultLM

\* configure({lm}): config.ts lines 18-27
Configure(lm) ==
    /\ dspyConfig' = [dspyConfig EXCEPT !.defaultLM = ConfiguredLM(dspyConfig.defaultLM, lm),
                                        !.thrown = Nothing]
    /\ UNCHANGED <<parseCalls, moduleKind, inputMap, builtPrompt, parsedSig, openAILM,
                   geminiChat, rawText, parseOutcome, signature, maxSteps, other, pc, step,
                   conversation, previousToolCalls, response, toolCall, result, error,
                   lmCalls, replyLog, toolLog, lastEvent>>

\* the module a constructor call leaves: this.lm of module.ts line 14, with the argument
\* it was given and the default of that moment kept as history
NewModule(lm, defaultLM) ==
    [lm |-> IF lm # NoLM THEN lm ELSE defaultLM, given |-> lm, defaultThen |-> defaultLM]

\* new SomeModule(signature, lm): module.ts lines 12-15; getDefaultLM is reached only
\* when no lm was given, and throws when no default is configured
ConstructModule(lm) ==
    /\ Len(dspyConfig.modules) < MaxModules
    /\ dspyConfig' =
          IF lm = NoLM /\ dspyConfig.defaultLM = NoLM
          THEN [dspyConfig EXCEPT !.thrown = NoDefaultLMError]
          ELSE [dspyConfig EXCEPT !.thrown = Nothing,
                                  !.modules = Append(@, NewModule(lm, dspyConfig.defaultLM))]
    /\ UNCHANGED <<parseCalls, moduleKind, inputMap, builtPrompt, parsedSig, openAILM,
                   geminiChat, rawText, parseOutcome, signature, maxSteps, other, pc, step,
                   conversation, previousToolCalls, response, toolCall, result, error,
                   lmCalls, replyLog, toolLog, lastEvent>>

\* a faulty variant of ModuleLM: the default is read when the module is used
ModuleLMLazy(m, config) == IF m.given # NoLM THEN m.given ELSE config.defaultLM

\* the language model a module calls: this.lm, set at module.ts line 14
ModuleLM(m, config) == m.lm

\* module i calls generate of its language model (this.lm.generate in forward)
ModuleGenerate(i) ==
    /\ i \in 1..Len(dspyConfig.modules)
    /\ Len(dspyConfig.calls) < MaxModuleCalls
    /\ dspyConfig' = [dspyConfig EXCEPT !.thrown = Nothing,
                         !.calls = Append(@, [module |-> i,
                                              lm |-> ModuleLM(dspyConfig.modules[i], dspyConfig)])]
    /\ UNCHANGED <<parseCalls, moduleKind, inputMap, builtPrompt, parsedSig, openAILM,
                   geminiChat, rawText, parseOutcome, signature, maxSteps, other, pc, step,
                   conversation, previousToolCalls, response, toolCall, result, error,
                   lmCalls, replyLog, toolLog, lastEvent>>

ConfigInit ==
    /\ signature = QuestionAnswer
    /\ maxSteps = 1
    /\ rawText = <<>>
    /\ moduleKind = "none"
    /\ inputMap = NoInputs
    /\ NotStarted

ConfigNext ==
    \/ \E lm \in LMOptions : Configure(lm)
    \/ \E lm \in LMOptions : ConstructModule(lm)
    \/ \E i \in 1..MaxModules : ModuleGenerate(i)

ConfigSpec == ConfigInit /\ [][ConfigNext]_vars

-----------------------------------------------------------------------------
(* GeminiLM.chat *)

\* the longest message list a caller builds
MaxMessages == 3

\* the messages a caller puts in its list
ChatMessages == {[role |-> "user", content |-> <<"Hi">>],
                 [role |-> "assistant", content |-> <<"Hello">>],
                 [role |-> "system", content |-> <<"Be", SP, "brief">>]}

\* what sendMessage may resolve with as the text of the response, a block reason it may
\* report, and what it may reject with
ChatTexts == {<<"Hello">>, <<>>}
BlockReasons == {<<"SAFETY">>}
ChatErrors == {Err("Error", <<"fetch", SP, "failed">>)}

\* part_003 lines 57-60: the role 'assistant' is sent as 'model'
HistoryEntry(msg) ==
    [role |-> IF msg.role = "assistant" THEN "model" ELSE msg.role, text |-> msg.content]
HistoryOf(msgs) == [i \in 1..Len(msgs) |-> HistoryEntry(msgs[i])]

\* Array.prototype.pop leaves the array without its last element
Popped(msgs) == SubSeq(msgs, 1, Len(msgs) - 1)

\* the caller adds a message to its list between calls
CallerAppends(m) ==
    /\ geminiChat.pc # "awaitSend"
    /\ Len(geminiChat.messages) < MaxMessages
    /\ geminiChat' = [NoChat EXCEPT !.messages = Append(geminiChat.messages, m)]
    /\ UNCHANGED <<parseCalls, moduleKind, inputMap, builtPrompt, parsedSig, openAILM,
                   dspyConfig, rawText, parseOutcome, signature, maxSteps, other, pc, step,
                   conversation, previousToolCalls, response, toolCall, result, error,
                   lmCalls, replyLog, toolLog, lastEvent>>

\* chat(messages) is called with the caller's list, up to the await of sendMessage:
\* part_003 lines 47-75. messages.pop() (line 51) takes the last message out of the
\* caller's own array; with an empty list chat returns '' (lines 52-54)
GeminiChat ==
    /\ geminiChat.pc # "awaitSend"
    /\ geminiChat' =
          IF geminiChat.messages = <<>>
          THEN [NoChat EXCEPT !.pc = "returned", !.outcome = Str(<<>>)]
          ELSE [pc |-> "awaitSend",
                given |-> geminiChat.messages,
                messages |-> Popped(geminiChat.messages),
                history |-> HistoryOf(Popped(geminiChat.messages)),
                sent |-> Str(geminiChat.messages[Len(geminiChat.messages)].content),
                outcome |-> Nothing]
    /\ UNCHANGED <<parseCalls, moduleKind, inputMap, builtPrompt, parsedSig, openAILM,
                   dspyConfig, rawText, parseOutcome, signature, maxSteps, other, pc, step,
                   conversation, previousToolCalls, response, toolCall, result, error,
                   lmCalls, replyLog, toolLog, lastEvent>>

\* sendMessage resolves with a response that is not blocked: lines 75-78, 87
SendResolves(text) ==
    /\ geminiChat.pc = "awaitSend"
    /\ geminiChat' = [geminiChat EXCEPT !.pc = "returned", !.outcome = Str(text)]
    /\ UNCHANGED <<parseCalls, moduleKind, inputMap, builtPrompt, parsedSig, openAILM,
                   dspyConfig, rawText, parseOutcome, signature, maxSteps, other, pc, step,
                   conversation, previousToolCalls, response, toolCall, result, error,
                   lmCalls, replyLog, toolLog, lastEvent>>

\* sendMessage resolves with a response that names a block reason: lines 80-82
SendBlocked(reason) ==
    /\ geminiChat.pc = "awaitSend"
    /\ geminiChat' = [geminiChat EXCEPT !.pc = "failed",
                         !.outcome = Thrown(Err("Error", <<"Gemini", SP, "API", SP, "Error", ":", SP>>
                                                         \o reason))]
    /\ UNCHANGED <<parseCalls, moduleKind, inputMap, builtPrompt, parsedSig, openAILM,
                   dspyConfig, rawText, parseOutcome, signature, maxSteps, other, pc, step,
                   conversation, previousToolCalls, response, toolCall, result, error,
                   lmCalls, replyLog, toolLog, lastEvent>>

\* sendMessage rejects: the await of line 75 throws and chat rejects with the error
SendRejects(e) ==
    /\ geminiChat.pc = "awaitSend"
    /\ geminiChat' = [geminiChat EXCEPT !.pc = "failed", !.outcome = Thrown(e)]
    /\ UNCHANGED <<parseCalls, moduleKind, inputMap, builtPrompt, parsedSig, openAILM,
                   dspyConfig, rawText, parseOutcome, signature, maxSteps, other, pc, step,
                   conversation, previousToolCalls, response, toolCall, result, error,
                   lmCalls, replyLog, toolLog, lastEvent>>

GeminiInit ==
    /\ signature = QuestionAnswer
    /\ maxSteps = 1
    /\ rawText = <<>>
    /\ moduleKind = "none"
    /\ inputMap = NoInputs
    /\ NotStarted

GeminiNext ==
    \/ \E m \in ChatMessages : CallerAppends(m)
    \/ GeminiChat
    \/ \E text \in ChatTexts : SendResolves(text)
    \/ \E reason \in BlockReasons : SendBlocked(reason)
    \/ \E e \in ChatErrors : SendRejects(e)

GeminiSpec == GeminiInit /\ [][GeminiNext]_vars
-----------------------------------------------------------------------------
(* Properties of the agentic loop *)

\* the step taken is the handling of a model reply
ReplyStep == Len(replyLog') = Len(replyLog) + 1

\* the text says "Final Answer:" in some letter case
SaysFinalAnswer(r) == Includes(ToLowerCase(r), <<"final", SP, "answer", ":">>)

\* the text holds both labels of a tool call
SaysToolCall(r) == Includes(r, <<"Action", ":">>) /\ Includes(r, <<"Action", SP, "Input", ":">>)

\* the tool call of an earlier reply of this invocation is the one of r
RepeatsEarlier(r, log) ==
    /\ ExtractToolCall(r) # NoMatch
    /\ \E i \in 1..Len(log) : ExtractToolCall(log[i]) = ExtractToolCall(r)

NamesLimit(e, n) == Includes(e.message, <<"exceeded", SP, "maximum", SP, "steps", SP, "(", NumeralOf(n), ")">>)

\* C1: with maxSteps = N and no reply that leads to success, forward makes exactly N
\* generate calls, never more, and then fails with the 'exceeded maximum steps' error,
\* whose message names N.
C1_ExactlyNCalls ==
    /\ Len(lmCalls) <= maxSteps
    /\ pc \in {"awaitLM", "awaitTool"} => Len(lmCalls) = step + 1
    /\ (pc # "init" /\ pc # "done" /\ Len(replyLog) = maxSteps /\ pc # "awaitTool") => pc = "failed"
    /\ (pc = "failed" /\ lastEvent # "lmrejected") =>
          /\ Len(lmCalls) = maxSteps
          /\ Len(replyLog) = maxSteps
          /\ error.t = "error" /\ NamesLimit(error, maxSteps)

C1_Witness == pc = "failed" /\ maxSteps = 3 /\ Len(lmCalls) = 3

\* C2: within one invocation the tool function is invoked at most once for every
\* (tool name, input) pair; a later reply that repeats a pair uses up one step, appends
\* only the 'already made this tool call' observation and invokes no tool.
C2_DedupAtMostOnce ==
    [][ /\ \A i, j \in 1..Len(toolLog') : toolLog'[i] = toolLog'[j] => i = j
        /\ (ReplyStep /\ RepeatsEarlier(response', replyLog)) =>
              /\ toolLog' = toolLog
              /\ step' = step + 1
              /\ conversation' = conversation \o Thought(response')
                    \o <<NL, NL, "Observation", ":", SP>> \o RepeatedCallText ]_vars

C2_Witness ==
    /\ lastEvent = "repeated"
    /\ toolLog = << [tool |-> <<"add">>, input |-> <<"2", ",", "3">>] >>
    /\ Len(replyLog) = 3

\* C3: a reply that holds both a well-formed Action / Action Input pair and the text
\* 'Final Answer:' is handled as a tool call only: the step never ends in success, no
\* result is produced, and the loop goes on (to the tool, to the next iteration, or to
\* step exhaustion).
C3_ToolCallFirst ==
    [][ (ReplyStep /\ SaysToolCall(response') /\ SaysFinalAnswer(response')) =>
            /\ pc' # "done"
            /\ result' = Nothing
            /\ toolCall' # NoMatch
            /\ pc' = "awaitTool" \/ step' = step + 1 ]_vars

C3_Witness ==
    /\ SaysToolCall(response) /\ SaysFinalAnswer(response)
    /\ lastEvent = "invoked"
    /\ toolLog # <<>>

\* C4: a tool function that throws never makes forward fail: the error becomes an
\* observation at the end of the transcript and the loop goes on; the only error the
\* caller can then see is step exhaustion.
C4_ToolErrorRecovered ==
    lastEvent = "toolthrew" =>
        /\ \E e \in ToolErrors :
              /\ EndsWith(conversation, StringOf(e))
              /\ Includes(conversation, <<NL, NL, "Observation", ":", SP, "Error">>)
        /\ \/ pc = "awaitLM"
           \/ pc = "failed" /\ step = maxSteps /\ NamesLimit(error, maxSteps)

C4_Witness == lastEvent = "toolthrew" /\ pc = "awaitLM"

ObservationCue == <<NL, NL, "Observation", ":", SP>>

\* what a step appended to the transcript after the reply's own entry
AppendedAfter(conv, entry, conv2) == Sub(conv2, Len(conv) + Len(entry) + 1, Len(conv2))

C6_UnknownToolObservation ==
    [][ ( /\ ReplyStep
          /\ ExtractToolCall(response') # NoMatch
          /\ ~RepeatsEarlier(response', replyLog)
          /\ toolCall'.tool \notin ToolNames ) =>
            /\ toolLog' = toolLog
            /\ pc' \in {"awaitLM", "failed"}
            /\ pc' = "failed" => step' = maxSteps
            /\ Includes(AppendedAfter(conversation, Thought(response'), conversation'),
                        ObservationCue)
            /\ Includes(AppendedAfter(conversation, Thought(response'), conversation'),
                        toolCall'.tool)
            /\ Includes(AppendedAfter(conversation, Thought(response'), conversation'),
                        <<"add", ",", SP, "search">>) ]_vars

\* C7: whenever forward succeeds, the steps value of the result is the 1-based index of
\* the iteration in which the final answer was accepted, which is the number of
\* generate calls made in this invocation, and 1 <= steps <= maxSteps.
C7_StepsIsIterationIndex ==
    pc = "done" =>
        /\ result[<<"steps">>] = Num(Len(replyLog))
        /\ Len(lmCalls) = Len(replyLog)
        /\ 1 <= Len(replyLog) /\ Len(replyLog) <= maxSteps

C7_Witness == pc = "done" /\ maxSteps = 3 /\ result[<<"steps">>] = Num(2)

NeedsFieldsObservation ==
    ObservationCue \o
    <<"Your", SP, "Final", SP, "Answer", SP, "needs", SP, "to", SP, "include", SP,
      "structured", SP, "fields", ":", SP, "symbol", ",", SP, "price", ".", SP,
      "Please", SP, "provide", SP, "a", SP, "Final", SP, "Answer", SP, "with",
      SP, "the", SP, "required", SP, "format", ".">>

SymbolOnly == <<"Final", SP, "Answer", ":", SP, "symbol", ":", SP, "AAPL">>

C9_IncompleteAnswerRetried ==
    [][ ( /\ ReplyStep
          /\ signature.kind = "class"
          /\ ExtractToolCall(response') = NoMatch
          /\ SaysFinalAnswer(response')
          /\ ProvidedFields(ParsedOrEmpty(ParseOutput(signature, ExtractFinalAnswer(response')))) = {} ) =>
            /\ result' = Nothing
            /\ step' = step + 1
            /\ Len(replyLog') = step'
            /\ conversation' = conversation \o Thought(response') \o NeedsFieldsObservation
            /\ \/ pc' = "awaitLM" /\ step' < maxSteps
               \/ pc' = "failed" /\ step' = maxSteps /\ NamesLimit(error', maxSteps) ]_vars

C9_Witness ==
    /\ lastEvent = "incomplete" /\ pc = "awaitLM"
    /\ response = <<"Final", SP, "Answer", ":", SP, "Paris">>

\* C10: for a reply with no tool call the label is found in any letter case:
\* 'final answer: Paris' makes the loop succeed with the text after the label as the
\* raw answer, exactly as 'Final Answer: Paris' does.
C10_AnyCaseLabel ==
    [][ ( /\ ReplyStep
          /\ signature = QuestionAnswer
          /\ response' \in { <<"Final", SP, "Answer", ":", SP, "Paris">>,
                             <<"final", SP, "answer", ":", SP, "Paris">> } ) =>
            /\ pc' = "done"
            /\ result'[<<"answer">>] = Str(<<"Paris">>) ]_vars

StructuredAnswer == <<"Final", SP, "Answer", ":", NL, "symbol", ":", SP, "AAPL", NL, "price", ":", SP, "150">>

\* C11: with a structured signature, a Final Answer in the format the initial prompt
\* demands (the label, then one `field: value` line per declared output field) makes
\* the loop succeed with every declared output field holding the value the reply gave.
C11_PromptFormatAccepted ==
    [][ (ReplyStep /\ signature = StockQuote /\ response' = StructuredAnswer) =>
            /\ pc' = "done"
            /\ result'[<<"symbol">>] = Str(<<"AAPL">>)
            /\ result'[<<"price">>] = Num(150) ]_vars

\* the output field names the signature of the agent declares
DeclaredNames ==
    CASE signature = QuestionAnswer -> {<<"answer">>}
      [] signature = QuestionResult -> {<<"result">>}
      [] signature = StockQuote -> {<<"symbol">>, <<"price">>}

\* C12 as the specification states it: the keys of every result are exactly the
\* declared output field names plus steps.
C12_ExactlyDeclaredKeys ==
    pc = "done" => DOMAIN result = DeclaredNames \cup {<<"steps">>}

\* C12: every result has the key steps and the key answer.  When at least one declared
\* output field could be extracted from the final answer, every declared output field
\* is a key (bound to its coerced value or null) and, if no field is named answer, the
\* extra key answer holds the raw answer; when none could be extracted the only keys are
\* answer, holding the raw answer, and steps.
C12_DeclaredKeysPlusAnswer ==
    pc = "done" =>
        /\ {<<"steps">>, <<"answer">>} \subseteq DOMAIN result
        /\ DOMAIN result \subseteq DeclaredNames \cup {<<"steps">>, <<"answer">>}
        /\ \/ DeclaredNames \subseteq DOMAIN result
           \/ /\ DOMAIN result = {<<"steps">>, <<"answer">>}
              /\ signature.kind = "string"
        /\ <<"answer">> \notin DeclaredNames => result[<<"answer">>] = ExtractFinalAnswer(response)

C12_Witness ==
    /\ pc = "done" /\ signature = StockQuote
    /\ DOMAIN result = {<<"symbol">>, <<"price">>, <<"answer">>, <<"steps">>}

\* a result of QuestionResult that lacks the declared field
C12_FallbackWitness ==
    pc = "done" /\ signature = QuestionResult /\ DOMAIN result = {<<"steps">>, <<"answer">>}

\* C13: when the generate call rejects, the rejection is the failure of the whole
\* invocation: forward fails with that very error, without catching or retrying, and
\* makes no further model call and no tool invocation.
C13_GenerateFailureFatal ==
    [][ /\ (pc = "awaitLM" /\ lastEvent' = "lmrejected") =>
              /\ pc' = "failed"
              /\ error' \in LMErrors
              /\ lmCalls' = lmCalls /\ toolLog' = toolLog /\ replyLog' = replyLog
              /\ result' = Nothing
        /\ (pc = "failed" /\ error \in LMErrors) =>
              /\ pc' = "failed" /\ error' = error
              /\ lmCalls' = lmCalls /\ toolLog' = toolLog ]_vars

C13_Witness ==
    /\ lastEvent = "lmrejected" /\ pc = "failed"
    /\ Len(lmCalls) = 2 /\ Len(toolLog) = 1 /\ maxSteps = 3

\* the prompt next is the prompt prev, the reply to prev, at most one observation and
\* the cue for the next reply, in this order
GrowsBy(prev, next, reply) ==
    /\ OccursAt(next, prev, 1)
    /\ OccursAt(next, <<SP>> \o reply, Len(prev) + 1)
    /\ EndsWith(next, <<NL, NL, "Thought", ":">>)
    /\ \/ Len(next) = Len(prev) + 1 + Len(reply) + 4
       \/ /\ OccursAt(next, ObservationCue, Len(prev) + 2 + Len(reply))
          /\ Len(next) > Len(prev) + 1 + Len(reply) + Len(ObservationCue) + 4

\* C14: the transcript of one invocation only grows by appending: the prompt of
\* iteration k is a prefix of the prompt of iteration k+1, and every prompt holds the
\* initial prompt, then every earlier reply and observation in the order they occurred.
C14_TranscriptAppendOnly ==
    [][ /\ pc # "init" => OccursAt(conversation', conversation, 1)
        /\ \A k \in 1..Len(lmCalls') :
              /\ OccursAt(lmCalls'[k], lmCalls'[1], 1)
              /\ k > 1 => GrowsBy(lmCalls'[k - 1], lmCalls'[k], replyLog'[k - 1])
        /\ \A k \in 1..Len(lmCalls) : lmCalls'[k] = lmCalls[k] ]_vars

C14_Witness ==
    /\ Len(lmCalls) = 3 /\ lastEvent = "toolreturned"
    /\ Includes(lmCalls[3], ObservationCue \o RepeatedCallText)

\* C16: within one invocation at most one model call or tool invocation is outstanding:
\* every iteration makes exactly one model call; a tool invocation starts only in the
\* step that handles the reply of that call, and while it is outstanding no model call
\* starts; the next model call starts only when the tool invocation has settled.
C16_OneOutstandingCall ==
    [][ /\ Len(lmCalls') - Len(lmCalls) \in {0, 1}
        /\ Len(toolLog') - Len(toolLog) \in {0, 1}
        /\ Len(toolLog') > Len(toolLog) =>
              /\ pc = "awaitLM" /\ ReplyStep
              /\ lmCalls' = lmCalls
              /\ pc' = "awaitTool"
        /\ Len(lmCalls') > Len(lmCalls) =>
              /\ pc' = "awaitLM"
              /\ pc = "awaitLM" => ReplyStep
              /\ pc = "awaitTool" => lastEvent' \in {"toolreturned", "toolthrew"}
              /\ toolLog' = toolLog
        /\ pc' = "awaitLM" => Len(lmCalls') = Len(replyLog') + 1 /\ Len(lmCalls') = step' + 1
        /\ pc' = "awaitTool" => Len(lmCalls') = Len(replyLog') /\ Len(lmCalls') = step' + 1
        /\ pc' \in {"done", "failed"} => Len(lmCalls') - Len(replyLog') \in {0, 1} ]_vars

C16_Witness ==
    /\ lastEvent = "toolreturned" /\ pc = "awaitLM"
    /\ Len(toolLog) = 1 /\ Len(lmCalls) = 3 /\ Len(replyLog) = 2

\* the dedup keys of the tool calls in the replies given to the call with the locals f
OwnKeys(f) ==
    {ToolCallKey(ExtractToolCall(f.replyLog[i])) :
        i \in {j \in 1..Len(f.replyLog) : ExtractToolCall(f.replyLog[j]) # NoMatch}}

\* the locals f hold nothing but what the call's own replies put there
OwnState(f) ==
    /\ {f.previousToolCalls[i] : i \in 1..Len(f.previousToolCalls)} = OwnKeys(f)
    /\ Len(f.previousToolCalls) = Cardinality(OwnKeys(f))
    /\ f.lastEvent = "repeated" =>
          \E i \in 1..(Len(f.replyLog) - 1) :
              ExtractToolCall(f.replyLog[i]) = ExtractToolCall(f.response)
    /\ \A i \in 1..Len(f.toolLog) : ToolCallKey(f.toolLog[i]) \in OwnKeys(f)
    /\ \A r \in TwoCallReplies :
          Includes(f.conversation, <<NL, NL, "Thought", ":", SP>> \o r) =>
              \E i \in 1..Len(f.replyLog) : f.replyLog[i] = r
    /\ f.step <= maxSteps /\ Len(f.lmCalls) <= maxSteps
    /\ f.pc \in {"awaitLM", "awaitTool"} => Len(f.lmCalls) = f.step + 1
    /\ f.pc = "failed" => Len(f.replyLog) = maxSteps /\ Len(f.lmCalls) = maxSteps

\* C15: the transcript, the dedup keys and the step counter belong to one forward()
\* call: for two calls on one instance, one after the other or interleaved at their
\* awaits, a tool call of one never counts as a repeat in the other, neither transcript
\* holds a reply of the other, and each call has its own full step budget.
C15_LocalsPerInvocation == OwnState(Running) /\ OwnState(other)

C15_Witness ==
    /\ lastEvent = "invoked" /\ pc = "awaitTool"
    /\ other.pc = "awaitLM" /\ Len(other.toolLog) = 1 /\ other.toolLog = toolLog
    /\ other.replyLog # replyLog

\* the entries a tool set may hold, in both shapes, and the tool sets made of them
ToolEntries ==
    { DescribedTool("add", <<"Adds", SP, "numbers">>, "addFn"),
      FunctionTool("add", "addFn"),
      DescribedTool("search", <<"Finds", SP, "things">>, "searchFn"),
      FunctionTool("search", "searchFn") }
ToolSets == {<<a>> : a \in ToolEntries} \cup {<<a, b>> : a \in ToolEntries, b \in ToolEntries}

\* the entry normalized is the entry tool in the explicit shape
IsNormalized(tool, normalized) ==
    /\ DOMAIN normalized = {"name", "description", "function"}
    /\ normalized.name = tool.name
    /\ normalized.function = tool.function
    /\ tool.typeof = "function" => normalized.description = <<"Tool", ":", SP>> \o tool.name
    /\ tool.typeof = "object" => normalized.description = tool.description

\* C17: every entry of the tool set given to the constructor is normalized to the
\* {description, function} shape before use: a bare function named n gets the
\* description 'Tool: n', an explicit entry keeps its description and function, also
\* when both shapes are mixed; the prompt of every invocation lists the normalized set.
C17_ToolsNormalized ==
    /\ \A options \in ToolSets :
          /\ Len(NormalizeTools(options)) = Len(options)
          /\ \A i \in 1..Len(options) : IsNormalized(options[i], NormalizeTools(options)[i])
    /\ \A i \in 1..Len(ToolOptions) : IsNormalized(ToolOptions[i], Tools[i])
    /\ pc # "init" =>
          OccursAt(lmCalls[1],
                   <<"-", SP, "add", ":", SP, "Adds", SP, "numbers", NL,
                     "-", SP, "search", ":", SP, "Tool", ":", SP, "search", NL>>, 4)

C17_Witness ==
    /\ pc = "awaitTool" /\ toolLog[1].tool = <<"add">>
    /\ Includes(conversation, <<"-", SP, "search", ":", SP, "Tool", ":", SP, "search">>)
    /\ Includes(conversation, <<"-", SP, "add", ":", SP, "Adds", SP, "numbers">>)

\* the output field names a signature given to parseOutput declares
OutputNamesOf(sig) ==
    CASE sig = QuestionAnswer -> {<<"answer">>}
      [] sig = QuestionResult -> {<<"result">>}
      [] sig = AnswerConfidence -> {<<"answer">>, <<"confidence">>}
      [] sig = AnswerNumber -> {<<"answer">>}
      [] sig = FlagItems -> {<<"flag">>, <<"items">>}
      [] sig = TotalParen -> {<<"total", "(">>}
      [] sig = StockQuote -> {<<"symbol">>, <<"price">>}
      [] sig = NumVal -> {<<"num_val">>}

\* the text is one line with no colon
IsPlainLine(text) == ~Includes(text, <<":">>) /\ ~Includes(text, <<NL>>)

\* the text does not hold the field name f, and is not taken whole for f
HasNoMatch(text, f) ==
    /\ ~Includes(ToLowerCase(text), ToLowerCase(f))
    /\ ~(f = <<"answer">> /\ IsPlainLine(text))

\* C18: for every signature and every text, the mapping parseOutput returns has a key
\* for every declared output field, never omitting one, and null is the value of every
\* field for which the text holds no match.
C18_KeyForEveryField ==
    parseOutcome.t = "object" =>
        /\ DOMAIN parseOutcome.o = OutputNamesOf(signature)
        /\ \A f \in OutputNamesOf(signature) :
              HasNoMatch(rawText, f) => parseOutcome.o[f] = Null

C18_Witness ==
    /\ signature = AnswerConfidence /\ rawText = <<"other", ":", SP, "value">>
    /\ parseOutcome.t = "object"
    /\ parseOutcome.o[<<"answer">>] = Null /\ parseOutcome.o[<<"confidence">>] = Null

\* C19: parseOutput never raises, whatever the text and the declared output field names
\* and types.
C19_NeverRaises == parseOutcome.t # "throw"

WholeReply(text) == StripQuotes(StripStars(Trim(text)))

-----------------------------------------------------------------------------
(* Type conversion, determinism and prompt building of utils/parsing.ts *)

\* the type tags convertValue parses as a number
NumericTypes == {<<"number">>, <<"float">>, <<"int">>, <<"integer">>}

\* the output field entries of a signature, of either kind
OutputEntriesOf(sig) ==
    CASE sig.kind = "class" -> {sig.outputs[i] : i \in 1..Len(sig.outputs)}
      [] ParseStringSignature(sig.s).t = "parsed" ->
            {TypedOutputs(ParseStringSignature(sig.s))[i] :
                i \in 1..Len(ParseStringSignature(sig.s).outputs)}
      [] OTHER -> {}

\* the names of the output fields that are declared with a numeric type
NumericFieldsOf(sig) == {o.name : o \in {e \in OutputEntriesOf(sig) : ToLowerCase(e.type) \in NumericTypes}}

\* the value of field f in a text that is the one line "f: value"
IsLabelledLine(text, f) ==
    /\ Len(text) > Len(f) + 2
    /\ Sub(text, 1, Len(f)) = f
    /\ text[Len(f) + 1] = ":" /\ text[Len(f) + 2] = SP
    /\ \A i \in (Len(f) + 3)..Len(text) : text[i] \notin {NL, ":"}
LabelledValue(text, f) == Sub(text, Len(f) + 3, Len(text))

\* C21: for an output field declared int, integer, number or float, an extracted
\* value that parses as a number (parseInt and parseFloat read the leading numeral) is
\* returned as that number, a value that does not parse is returned as the raw string
\* unchanged, and no error is raised in either case.
C21_NumberOrRawString ==
    \A f \in NumericFieldsOf(signature) :
        (parseOutcome # Nothing /\ IsLabelledLine(rawText, f)) =>
            /\ parseOutcome.t = "object"
            /\ parseOutcome.o[f] =
                  IF LabelledValue(rawText, f)[1] \in Numerals
                  THEN Num(NumeralValue(LabelledValue(rawText, f)[1]))
                  ELSE Str(LabelledValue(rawText, f))

C21_Witness ==
    /\ signature = NumVal /\ rawText = <<"num_val", ":", SP, "not_a_number">>
    /\ parseOutcome.t = "object"
    /\ parseOutcome.o[<<"num_val">>] = Str(<<"not_a_number">>)

InputLabelsOf(sig) ==
    IF sig.kind = "class" THEN [i \in 1..Len(sig.inputs) |-> PrefixOf(sig.inputs[i])]
    ELSE [i \in 1..Len(ParseStringSignature(sig.s).inputs) |->
             ParseStringSignature(sig.s).inputs[i] \o <<":">>]
InputNamesOf(sig) ==
    IF sig.kind = "class" THEN NamesOf(sig.inputs) ELSE ParseStringSignature(sig.s).inputs

\* the inputs object holds a value under the name
HasValue(inputs, name) == name \in DOMAIN inputs /\ inputs[name] # Undefined

\* the lines of the prompt that start with the label
LinesFor(lines, label) ==
    {j \in 1..Len(lines) : Len(lines[j]) >= Len(label) /\ Sub(lines[j], 1, Len(label)) = label}

\* one line for every input field that has a value, none for the others, and the
\* lines in the declared order
InputLinesAsDeclared(sig, inputs, lines) ==
    /\ \A i \in 1..Len(InputNamesOf(sig)) :
          Cardinality(LinesFor(lines, InputLabelsOf(sig)[i])) =
              IF HasValue(inputs, InputNamesOf(sig)[i]) THEN 1 ELSE 0
    /\ \A i, j \in 1..Len(InputNamesOf(sig)) :
          ( /\ i < j
            /\ HasValue(inputs, InputNamesOf(sig)[i])
            /\ HasValue(inputs, InputNamesOf(sig)[j]) ) =>
              \A a \in LinesFor(lines, InputLabelsOf(sig)[i]) :
                  \A b \in LinesFor(lines, InputLabelsOf(sig)[j]) : a < b

\* C23: for every signature and every inputs object the prompt buildPrompt returns
\* holds exactly one input line for each input field that has a value in the inputs, in
\* the declared order, and no line for an input field whose value is absent.
C23_OneLinePerDefinedInput ==
    (builtPrompt # Nothing /\ builtPrompt.t = "string") =>
        InputLinesAsDeclared(signature, inputMap, Split(builtPrompt.s, NL))

\* the same for the signatures none of whose input fields is named like a property of
\* Object.prototype
C23_OrdinaryNames ==
    ( /\ builtPrompt # Nothing /\ builtPrompt.t = "string"
      /\ \A i \in 1..Len(InputNamesOf(signature)) :
            InputNamesOf(signature)[i] \notin ObjectPrototypeKeys ) =>
        InputLinesAsDeclared(signature, inputMap, Split(builtPrompt.s, NL))

-----------------------------------------------------------------------------
(* Signature strings *)

\* what the specification expects of a well-formed string: the names in the written
\* order, and the written type or string for every name
ExpectedSignature(ins, outs) ==
    [t |-> "parsed",
     inputs |-> [i \in 1..Len(ins) |-> <<ins[i]>>],
     outputs |-> [i \in 1..Len(outs) |-> <<outs[i].name>>],
     types |-> [k \in {<<ins[i]>> : i \in 1..Len(ins)}
                      \cup {<<outs[i].name>> : i \in 1..Len(outs)} |->
                  IF \E i \in 1..Len(outs) : <<outs[i].name>> = k /\ outs[i].type # <<>>
                  THEN (CHOOSE o \in {outs[i] : i \in 1..Len(outs)} : <<o.name>> = k).type
                  ELSE <<"string">>]]

\* C24: parseStringSignature on a string "in1, in2 -> out1: type, out2" returns the
\* input names and the output names in their written order and a map from every name
\* to its type, string for a field with no type; the whitespace around names and types
\* does not change the result.
C24_NamesOrderTypes ==
    \A ins \in WrittenInputs, outs \in WrittenOutputs, pad \in Paddings :
        (parsedSig # Nothing /\ signature.s = Written(ins, outs, pad)) =>
            parsedSig = ExpectedSignature(ins, outs)

C24_Witness ==
    /\ signature.s = <<SP, SP, "input1", SP, SP, ",", SP, SP, "input2", SP, SP, "->",
                       SP, SP, "output1", SP, SP, ":", SP, SP, "int", SP, SP, ",",
                       SP, SP, "output2", SP, SP>>
    /\ parsedSig.t = "parsed"
    /\ parsedSig.outputs = <<<<"output1">>, <<"output2">>>>
    /\ parsedSig.types[<<"output1">>] = <<"int">>
    /\ parsedSig.types[<<"output2">>] = <<"string">>

\* C25: parsing a signature string that holds no -> separator fails with an error; it
\* never returns a parsed signature.
C25_NoArrowFails ==
    (parsedSig # Nothing /\ ~Includes(signature.s, <<"->">>)) => parsedSig.t = "throw"

C25_Witness ==
    /\ signature.s = <<SP, "question", SP, SP, "answer", SP>>
    /\ parsedSig = Thrown(Err("TypeError", <<"Cannot read properties of undefined">>))

\* C26: a signature string that holds more than one -> separator is treated as
\* malformed: parsing it does not return a parsed signature.
C26_TwoArrowsRejected ==
    (parsedSig # Nothing /\ Count(signature.s, "->") > 1) => parsedSig.t # "parsed"

-----------------------------------------------------------------------------
(* Predict and ChainOfThought *)

\* the message starts with the words and a colon
MessageStarts(e, words) ==
    /\ e.t = "error" /\ e.name = "Error"
    /\ Len(e.message) > Len(words) + 2
    /\ Sub(e.message, 1, Len(words) + 2) = words \o <<":", SP>>

\* the causes of the three stages: what buildPrompt throws, what generate rejects with,
\* what parseOutput throws, each as the text that follows the colon
StageCauses ==
    {<<"No signature provided">>, <<"Cannot read properties of undefined">>,
     <<"API", SP, "error">>, <<"timeout">>, <<"Invalid regular expression">>}

GenerationFailed ==
    moduleKind = "ChainOfThought" /\ pc = "failed" /\ lastEvent = "lmrejected"

\* C28 as the specification states it: a generation failure inside
\* ChainOfThought.forward reaches the caller as the same "Prediction failed" error that
\* Predict raises.
C28_SameErrorAsPredict ==
    GenerationFailed => MessageStarts(error, <<"Prediction failed">>)

\* C28: a generation failure inside ChainOfThought.forward, in the reasoning call or in
\* the answer call, reaches the caller as an Error of the same shape as that of Predict
\* but with the words of its own class: "ChainOfThought failed: <cause>".
C28_ChainOfThoughtFailed ==
    GenerationFailed =>
        \E e \in PredictErrors :
            error = Err("Error", <<"ChainOfThought failed", ":", SP>> \o CauseOf(e))

C28_Witness ==
    /\ GenerationFailed
    /\ Len(lmCalls) = 2 /\ Len(replyLog) = 1
    /\ error = Err("Error", <<"ChainOfThought failed", ":", SP, "API", SP, "error">>)

\* C29: ChainOfThought.forward makes exactly two language-model calls in order: the
\* second is issued only when the first has returned, its prompt holds the reply of the
\* first as the reasoning, and the reasoning key of the result is that reply; when the
\* first call fails the second is never issued.
C29_TwoCallsInOrder ==
    [][moduleKind = "ChainOfThought" =>
        /\ Len(lmCalls') <= 2
        /\ Len(lmCalls') = 2 =>
              /\ Len(replyLog') >= 1
              /\ Includes(lmCalls'[2], <<"Reasoning", ":", SP>> \o replyLog'[1] \o <<NL>>)
        /\ (Len(lmCalls) = 1 /\ Len(lmCalls') = 2) => Len(replyLog) = 0 /\ Len(replyLog') = 1
        /\ pc' = "done" =>
              /\ Len(lmCalls') = 2 /\ Len(replyLog') = 2
              /\ <<"reasoning">> \in DOMAIN result'
              /\ result'[<<"reasoning">>] = Str(replyLog'[1])
        /\ (pc = "awaitReasoning" /\ pc' = "failed") => Len(lmCalls') = 1
        /\ pc = "failed" => pc' = "failed" /\ lmCalls' = lmCalls]_vars

C29_Witness ==
    /\ moduleKind = "ChainOfThought" /\ signature = QuestionAnswer /\ pc = "done"
    /\ replyLog = <<<<"Paris">>, <<"reasoning", ":", SP, "none", NL, "answer", ":", SP, "Paris">>>>
    /\ Len(lmCalls) = 2
    /\ result[<<"reasoning">>] = Str(<<"Paris">>)
    /\ result[<<"answer">>] = Str(<<"Paris">>)

\* C30: a module that was given no signature fails with a configuration error at
\* once, before any language-model call is made, and never returns a result.
C30_NoSignatureFailsFirst ==
    signature = NoSignature =>
        /\ lmCalls = <<>>
        /\ pc # "done"
        /\ pc = "failed" => Includes(error.message, <<"No signature provided">>)

-----------------------------------------------------------------------------
(* Language-model packages and configuration *)

\* the three token counters of a usage object
TokensOf(usage) == <<usage.promptTokens, usage.completionTokens, usage.totalTokens>>

\* C31: after any sequence of chat calls and resetUsage calls, getUsage reports as
\* prompt, completion and total token counts the sums of the usage figures the
\* successful API calls returned since the most recent reset, all zero right after a
\* reset; a call that fails with an API error leaves the counters unchanged.
C31_UsageIsSumSinceReset ==
    [][ /\ openAILM'.reported # openAILM.reported =>
              TokensOf(openAILM'.reported) = TokensOf(openAILM'.returned)
        /\ TokensOf(openAILM'.usage) = TokensOf(openAILM'.returned)
        /\ (openAILM'.inFlight < openAILM.inFlight /\ openAILM'.returned = openAILM.returned)
              => openAILM'.usage = openAILM.usage
        /\ (openAILM'.inFlight = openAILM.inFlight /\ openAILM'.issued = openAILM.issued
              /\ openAILM'.reported = openAILM.reported /\ openAILM' # openAILM)
              => openAILM'.usage = ZeroUsage ]_vars

C31_Witness ==
    /\ openAILM.issued = 3 /\ openAILM.inFlight = 0
    /\ openAILM.reported # Nothing
    /\ TokensOf(openAILM.reported) = <<13, 5, 10>>
    /\ openAILM.usage = openAILM.reported

-----------------------------------------------------------------------------
(* The loop of RespAct.forward: further properties *)

\* C32: when a reply holds neither a tool call nor a final answer, the iteration
\* appends the reply itself to the transcript and nothing else: no observation is added,
\* no tool is invoked, the dedup list is unchanged, and the loop goes on to the next
\* iteration having used up one step.
C32_PlainReplyOnlyAppended ==
    [][ ( /\ ReplyStep
          /\ ExtractToolCall(response') = NoMatch
          /\ ~SaysFinalAnswer(response') ) =>
            /\ conversation' = conversation \o <<NL, NL, "Thought", ":", SP>> \o response'
            /\ toolLog' = toolLog
            /\ previousToolCalls' = previousToolCalls
            /\ step' = step + 1
            /\ result' = Nothing
            /\ pc' = IF step + 1 < maxSteps THEN "awaitLM" ELSE "failed"
            /\ pc' = "awaitLM" => lmCalls' = Append(lmCalls, conversation' \o <<NL, NL, "Thought", ":">>) ]_vars

C32_Witness ==
    /\ pc = "awaitLM" /\ step = 2
    /\ replyLog = <<<<"Action", ":", SP, "add">>, <<"I", SP, "need", SP, "to", SP, "think">>>>
    /\ toolLog = <<>> /\ previousToolCalls = <<>>
    /\ ~Includes(conversation, <<"Observation">>)

\* the fields parseOutput extracted from the raw answer: the keys whose value is not
\* null, none when parseOutput threw
ExtractedFrom(tried) ==
    IF tried.t = "throw" THEN {} ELSE {k \in DOMAIN tried.o : tried.o[k] # Null}

\* the result is the raw answer under the key answer, and steps
IsRawAnswerOnly(res, rawAnswer) ==
    /\ DOMAIN res = {<<"answer">>, <<"steps">>}
    /\ res[<<"answer">>] = rawAnswer

\* the result is every parsed field, the raw answer under the key answer, and steps
IsParsedPlusAnswer(res, fields, rawAnswer) ==
    /\ DOMAIN res = DOMAIN fields \cup {<<"answer">>, <<"steps">>}
    /\ \A k \in DOMAIN fields : res[k] = fields[k]
    /\ res[<<"answer">>] = rawAnswer

\* what C33 says of a result, given the raw answer and what parseOutput made of it
FallbackOrMerge(res, rawAnswer, tried) ==
    /\ ExtractedFrom(tried) = {} => IsRawAnswerOnly(res, rawAnswer)
    /\ (ExtractedFrom(tried) # {} /\ <<"answer">> \notin DOMAIN tried.o) =>
          IsParsedPlusAnswer(res, tried.o, rawAnswer)

\* C33: when the loop accepts a final answer: if no declared field could be extracted
\* from it, the result is the single field answer holding the raw answer (and steps);
\* if some fields were extracted but the parsed mapping has no key answer, the result
\* holds every parsed field and a key answer equal to the raw answer.
C33_FallbackAndMerge ==
    [][ (ReplyStep /\ pc' = "done") =>
            FallbackOrMerge(result', ExtractFinalAnswer(response'),
                            ParseOutput(signature, ExtractFinalAnswer(response'))) ]_vars

C33_Witness ==
    /\ pc = "done" /\ signature = StockQuote
    /\ response = <<"Final", SP, "Answer", ":", SP, "symbol", ":", SP, "AAPL">>
    /\ DOMAIN result = {<<"symbol">>, <<"price">>, <<"answer">>, <<"steps">>}
    /\ result[<<"symbol">>] = Str(<<"AAPL">>)
    /\ result[<<"price">>] = Null
    /\ result[<<"answer">>] = Str(<<"symbol", ":", SP, "AAPL">>)

C33_FallbackWitness ==
    /\ pc = "done" /\ signature = QuestionResult
    /\ response = <<"Final", SP, "Answer", ":", SP, "Paris">>
    /\ IsRawAnswerOnly(result, Str(<<"Paris">>))

\* the transcript holds the observation of a failed call of the tool: the tool threw, or
\* no tool has the name
FailedEarlier(conv, toolName) ==
    \/ \E e \in ToolErrors :
          Includes(conv, <<NL, NL, "Observation", ":", SP, "Error", SP, "executing", SP>>
                         \o toolName \o <<":", SP>> \o StringOf(e))
    \/ Includes(conv, <<NL, NL, "Observation", ":", SP, "Error", ":", SP, "Tool", SP, QUOTE>>
                      \o toolName \o <<QUOTE, SP, "not", SP, "found">>)

\* C34: the dedup key of a tool call is recorded before the tool runs, so after a tool
\* call that failed (the tool threw, or no tool has the name) a later reply with the
\* same tool name and input is a repeat: the tool is not invoked again and only the
\* 'already made this tool call' observation is appended.
C34_FailedCallStillRecorded ==
    [][ /\ pc' = "awaitTool" =>
              \E i \in 1..Len(previousToolCalls') :
                  previousToolCalls'[i] = toolCall'.tool \o <<":">> \o toolCall'.input
        /\ ( /\ ReplyStep
              /\ RepeatsEarlier(response', replyLog)
              /\ FailedEarlier(conversation, ExtractToolCall(response').tool) ) =>
                /\ toolLog' = toolLog
                /\ pc' # "awaitTool"
                /\ previousToolCalls' = previousToolCalls
                /\ conversation' = conversation \o <<NL, NL, "Thought", ":", SP>> \o response'
                                    \o <<NL, NL, "Observation", ":", SP>> \o RepeatedCallText ]_vars

C34_Witness ==
    /\ lastEvent = "repeated"
    /\ Len(toolLog) = 1 /\ Len(replyLog) = 2
    /\ replyLog[1] = replyLog[2]
    /\ FailedEarlier(conversation, <<"add">>)
    /\ EndsWith(conversation, RepeatedCallText)

C34_UnknownToolWitness ==
    /\ lastEvent = "repeated"
    /\ toolLog = <<>> /\ Len(replyLog) = 2
    /\ FailedEarlier(conversation, <<"lookup">>)
    /\ EndsWith(conversation, RepeatedCallText)

\* C35: a tool call is answered with the 'already made this tool call' observation only
\* when an earlier reply of the invocation held the same tool name and the same input;
\* a call that differs from every earlier one in name or input (names and inputs with
\* ':' included) is not treated as a repeat.
C35_OnlyIdenticalPairSuppressed ==
    [][ ( /\ ReplyStep
          /\ ExtractToolCall(response') # NoMatch
          /\ ~RepeatsEarlier(response', replyLog) ) =>
                /\ lastEvent' # "repeated"
                /\ ~EndsWith(conversation', RepeatedCallText)
                /\ Len(previousToolCalls') = Len(previousToolCalls) + 1 ]_vars

\* the text of an observation holds a label the loop looks for in a reply
HoldsLabel(text) == HasFinalAnswer(text) \/ Includes(text, <<"Action", ":">>)

\* C36: only the latest reply of the model is scanned. A step that places the text of a
\* tool (its result or its error) in an observation never ends the invocation with a
\* result and never invokes a tool or records a call; the invocation ends with a result
\* only on a reply that says 'Final Answer:' and holds no tool call, and a tool is
\* invoked only on a reply, with the tool call that reply holds.
C36_OnlyReplyScanned ==
    [][ /\ lastEvent' \in {"toolreturned", "toolthrew"} /\ ~ReplyStep =>
              /\ pc' \in {"awaitLM", "failed"}
              /\ result' = result
              /\ toolLog' = toolLog
              /\ previousToolCalls' = previousToolCalls
              /\ toolCall' = toolCall
        /\ pc' = "done" /\ pc # "done" =>
              /\ ReplyStep
              /\ HasFinalAnswer(response')
              /\ ExtractToolCall(response') = NoMatch
        /\ toolLog' # toolLog =>
              /\ ReplyStep
              /\ ExtractToolCall(response') # NoMatch
              /\ toolLog' = Append(toolLog, ExtractToolCall(response')) ]_vars

\* a tool returned a text that says 'Final Answer:', the model then replied with plain
\* text, and the loop went on to ask the model again
C36_Witness ==
    /\ Len(replyLog) = 2 /\ Len(toolLog) = 1
    /\ Includes(conversation, <<NL, NL, "Observation", ":", SP, "Final", SP, "Answer", ":", SP, "5">>)
    /\ ~HasFinalAnswer(replyLog[2]) /\ ExtractToolCall(replyLog[2]) = NoMatch
    /\ pc = "awaitLM" /\ Len(lmCalls) = 3

\* a tool returned a text that holds a tool call and no tool was invoked for it
C36_ActionWitness ==
    /\ lastEvent = "toolreturned"
    /\ Includes(conversation, <<NL, NL, "Observation", ":", SP, "Action", ":", SP, "add", NL,
                                "Action", SP, "Input", ":", SP, "2", ",", "3">>)
    /\ Len(toolLog) = 1 /\ Len(previousToolCalls) = 1
    /\ pc = "awaitLM"

-----------------------------------------------------------------------------
(* RespAct: the budget of steps *)

\* C37: whatever maxSteps option the agent was constructed with, a forward() that fails
\* with the 'exceeded maximum steps' error has made at least one generate call, and the
\* limit the error names is the number of generate calls that were made.
C37_AtLeastOneCallBeforeExhaustion ==
    ( /\ pc = "failed"
      /\ error # Nothing
      /\ Includes(error.message, <<"exceeded", SP, "maximum", SP, "steps">>) ) =>
            /\ Len(lmCalls) >= 1
            /\ NamesLimit(error, Len(lmCalls))

-----------------------------------------------------------------------------
(* The default language model *)

\* C38: a module constructed without a language model holds the default configured at
\* the moment of its construction and every generate call it makes goes to that one;
\* configure() changes no module that exists; and constructing such a module while no
\* default is configured throws the 'No default language model configured' error and
\* leaves no module.
C38_DefaultCapturedAtConstruction ==
    [][ /\ \A i \in 1..Len(dspyConfig.modules) :
              /\ i <= Len(dspyConfig'.modules)
              /\ dspyConfig'.modules[i] = dspyConfig.modules[i]
        /\ \A i \in 1..Len(dspyConfig'.modules) :
              dspyConfig'.modules[i].given = NoLM =>
                  /\ dspyConfig'.modules[i].defaultThen # NoLM
                  /\ dspyConfig'.modules[i].lm = dspyConfig'.modules[i].defaultThen
        /\ Len(dspyConfig'.modules) = Len(dspyConfig.modules) + 1 =>
              dspyConfig'.modules[Len(dspyConfig'.modules)].defaultThen = dspyConfig.defaultLM
        /\ \A k \in 1..Len(dspyConfig'.calls) :
              dspyConfig'.modules[dspyConfig'.calls[k].module].given = NoLM =>
                  dspyConfig'.calls[k].lm = dspyConfig'.modules[dspyConfig'.calls[k].module].defaultThen
        /\ dspyConfig'.thrown # Nothing =>
              /\ dspyConfig.defaultLM = NoLM
              /\ dspyConfig'.thrown = NoDefaultLMError
              /\ dspyConfig'.modules = dspyConfig.modules ]_vars

\* a module constructed without a language model under default lmA made a generate
\* call after the default became lmB
C38_Witness ==
    /\ dspyConfig.defaultLM = "lmB"
    /\ Len(dspyConfig.modules) >= 1
    /\ dspyConfig.modules[1].given = NoLM /\ dspyConfig.modules[1].lm = "lmA"
    /\ \E k \in 1..Len(dspyConfig.calls) :
          dspyConfig.calls[k] = [module |-> 1, lm |-> "lmA"]

\* a module was constructed with no language model before any configure()
C38_ThrownWitness ==
    /\ dspyConfig.thrown = NoDefaultLMError
    /\ dspyConfig.defaultLM = NoLM
    /\ dspyConfig.modules = <<>>

-----------------------------------------------------------------------------
(* GeminiLM.chat and the message list of its caller *)

\* C39: when a chat(messages) call has returned or has thrown, the list of the caller
\* holds the messages it held when the call was made, in the same order.
C39_CallerListUnchanged ==
    geminiChat.pc \in {"returned", "failed"} => geminiChat.messages = geminiChat.given
====
